---- MODULE Spec2Model ----
(***************************************************************************)
(* pondus: identity resolver (src/src/alias.rs), freshness cache           *)
(* (src/src/cache.rs) and aggregation pipeline (src/src/main.rs).          *)
(*                                                                         *)
(* Strings are sequences of one-character strings.  Each component has its *)
(* own specification over the shared variables:                            *)
(*   SpecResolve  AliasMap::load / resolve / prefix_match                  *)
(*   SpecFetch    fetch_all over the registered sources                    *)
(*   SpecCache    Cache::get / Cache::set of concurrent processes sharing  *)
(*                one cache directory                                   *)
(*   SpecOneSetter  the same with a single process calling Cache::set      *)
(*   SpecTtl      one process, the wall clock moving, every stored ttl     *)
(*   SpecStore    Cache::set with every way it can fail                    *)
(*   SpecDamage   Cache::get over damaged entry files                      *)
(*   SpecEntry    Cache::get / Cache::set over one stored entry            *)
(*   SpecMain     main: command dispatch over fetch_all and the renderers  *)
(*   SpecSource   Source::fetch of each source through the cache           *)
(*   SpecRun      main with the sources fetching through the cache         *)
(***************************************************************************)
EXTENDS Integers, Sequences, FiniteSets, TLC

VARIABLES
    bundled,        \* alias.rs:6   BUNDLED_ALIASES, parsed: a set of AliasEntry
    override,       \* alias.rs:28  the user override dataset, parsed (empty: none)
    to_canonical,   \* alias.rs:17  AliasMap.to_canonical: lowercase key -> canonical
    rpc,            \* resolver position: "init", "loaded", "resolved", "again"
    query,          \* alias.rs:65  the name passed to resolve
    resolved,       \* alias.rs:65  the value resolve returned
    resolved2,      \* alias.rs:65  the value resolve returned for `resolved`
    registered,     \* sources/mod.rs:14 all_sources(): the registered sources
    srcs,           \* main.rs:92  fetch_all's srcs = get_sources()
    fpc,            \* fetch_all position: "start", "fetching", "done", and inside
                    \* Source::fetch "get", "http", "open", "snapshot", "json",
                    \* "primary", "hf", "set_scrape", "set"
    returned,       \* main.rs:94  what each s.fetch(config, cache) returned, in call order
    results,        \* main.rs:93  the Vec<SourceResult> collected so far
    now,            \* cache.rs:33 Utc::now(), in half hours
    dirents,        \* cache.rs:16 the cache directory: file name -> inode (0: absent)
    inodes,         \* the file system: inode -> content, a sequence of written chunks
    setters,        \* the processes that call Cache::set
    ttl_cfg,        \* cache.rs:17 Cache.ttl_hours of each process
    pc,             \* position of each process inside Cache::get / Cache::set
    key,            \* cache.rs:28,41 the `source` argument of the running call
    fd,             \* cache.rs:30,56 the inode the running call has open (0: none)
    buf,            \* cache.rs:50 json to write (set); cache.rs:30 content read so far (get)
    off,            \* cache.rs:57 file offset of the writer
    ret,            \* what the last finished call returned: <<"set", result>>,
                    \* <<"clear", result>> or
                    \* <<"get", result, content read, clock reading>>
    \* the process (main.rs)
    mpc,            \* main.rs:63-89 the position of main
    cli_refresh,    \* main.rs:70 cli.refresh, once main has tested it
    alias_path,     \* main.rs:67 config.alias.path as Config::load returned it
    files,          \* alias.rs:25-44 what load is given: the bundled string and what
                    \* it finds at the configured path and at the default location
    command,        \* main.rs:74 the command being run
    canon,          \* main.rs:151,188,189 the canonicals resolved from the arguments
    output,         \* main.rs:140,176,214,232 the PondusOutput that was printed
    exited          \* how the process ended

rvars == <<bundled, override, to_canonical, rpc, query, resolved, resolved2>>

fvars == <<registered, srcs, fpc, returned, results>>

cvars == <<now, dirents, inodes, setters, ttl_cfg, pc, key, fd, buf, off, ret>>

mvars == <<mpc, cli_refresh, alias_path, files, command, canon, output, exited>>

vars == <<rvars, fvars, cvars, mvars>>

----------------------------------------------------------------------------
(* Bounds *)

MaxLen == 3        \* longest query string passed to resolve
MaxEntries == 2    \* entries of the bundled and the override dataset together
MaxSources == 3    \* longest list of registered sources
MaxData == 2       \* largest payload, in chunks of its serialization
MaxTime == 4       \* latest wall-clock reading, in half hours
WordBits == 3      \* width the model gives the 64-bit integers of cache.rs

----------------------------------------------------------------------------
(* Strings *)

Letters == {"a", "A"}
Separators == {"-", "(", " "}
Chars == Letters \cup Separators \cup {"."}

\* Sequences over S of length at most n
RECURSIVE StringsUpTo(_, _)
StringsUpTo(S, n) ==
    IF n = 0 THEN {<<>>}
    ELSE LET shorter == StringsUpTo(S, n - 1)
         IN  shorter \cup {Append(s, c) : s \in {t \in shorter : Len(t) = n - 1}, c \in S}

\* char::to_lowercase on the model's alphabet
LowerChar(c) == IF c = "A" THEN "a" ELSE c

\* str::to_lowercase
to_lowercase(s) == [i \in 1..Len(s) |-> LowerChar(s[i])]

\* str::starts_with
starts_with(s, p) == Len(p) <= Len(s) /\ SubSeq(s, 1, Len(p)) = p

\* The lowercase strings
IsLower(s) == \A i \in 1..Len(s) : s[i] # "A"

\* All sequences that enumerate the finite set S once each
RECURSIVE Orders(_)
Orders(S) ==
    IF S = {} THEN {<<>>}
    ELSE UNION {{<<x>> \o o : o \in Orders(S \ {x})} : x \in S}

----------------------------------------------------------------------------
(* Identity resolver: datasets *)

\* Names the datasets are written with (canonical and alias fields)
CanonPool == {<<"A">>, <<"a", "-">>}
AliasLists == {<<>>, << <<"a">> >>, << <<"a", "-", "a">> >>}

\* alias.rs:8-13 AliasEntry
AliasEntry == [canonical : CanonPool, aliases : AliasLists]

Datasets == {d \in SUBSET AliasEntry : Cardinality(d) <= MaxEntries}

NoMap == << >>

\* insert that keeps the value a key already has
Insert_KeepFirst(map, k, v) == map @@ (k :> v)

\* HashMap::insert: the later value replaces an earlier one for the same key
Insert(map, k, v) == (k :> v) @@ map

\* HashMap::get
Lookup(map, k) == IF k \in DOMAIN map THEN <<"Some", map[k]>> ELSE <<"None">>

\* alias.rs:56-58 the alias loop of one entry
RECURSIVE InsertAliases(_, _, _)
InsertAliases(map, aliases, canonical) ==
    IF aliases = <<>> THEN map
    ELSE InsertAliases(Insert(map, to_lowercase(Head(aliases)), canonical),
                       Tail(aliases), canonical)

\* alias.rs:52-58 one iteration of parse_into's loop
InsertEntry(map, entry) ==
    LET canonical == to_lowercase(entry.canonical)
    IN  InsertAliases(Insert(map, canonical, canonical), entry.aliases, canonical)

\* alias.rs:49-61 parse_into, the entries visited in the order `entries`
RECURSIVE parse_into(_, _)
parse_into(entries, map) ==
    IF entries = <<>> THEN map
    ELSE parse_into(Tail(entries), InsertEntry(map, Head(entries)))

----------------------------------------------------------------------------
(* Identity resolver: resolve *)

\* IsCandidate with the version dot accepted as a separator
IsCandidate_DotSeparates(lower_name, alias) ==
    /\ Len(lower_name) > Len(alias)
    /\ starts_with(lower_name, alias)
    /\ lower_name[Len(alias) + 1] \in {"-", "(", " ", "."}

\* alias.rs:94-102 is `alias` a prefix candidate for lower_name
IsCandidate(lower_name, alias) ==
    /\ Len(lower_name) > Len(alias)
    /\ starts_with(lower_name, alias)
    /\ lower_name[Len(alias) + 1] \in {"-", "(", " "}

\* PrefixLoop that keeps the first candidate it visits
RECURSIVE PrefixLoop_FirstWins(_, _, _, _)
PrefixLoop_FirstWins(map, keys, lower_name, best) ==
    IF keys = <<>> THEN best
    ELSE LET alias == Head(keys)
         IN  PrefixLoop_FirstWins(map, Tail(keys), lower_name,
                IF IsCandidate(lower_name, alias) /\ best = <<"None">>
                THEN <<"Some", Len(alias), map[alias]>> ELSE best)

\* PrefixLoop without the length comparison: the last candidate visited wins
RECURSIVE PrefixLoop_LastWins(_, _, _, _)
PrefixLoop_LastWins(map, keys, lower_name, best) ==
    IF keys = <<>> THEN best
    ELSE LET alias == Head(keys)
         IN  PrefixLoop_LastWins(map, Tail(keys), lower_name,
                IF IsCandidate(lower_name, alias)
                THEN <<"Some", Len(alias), map[alias]>> ELSE best)

\* alias.rs:93-105 the loop of prefix_match over keys[i..], best = <<len, canonical>>
RECURSIVE PrefixLoop(_, _, _, _)
PrefixLoop(map, keys, lower_name, best) ==
    IF keys = <<>> THEN best
    ELSE LET alias == Head(keys)
             take  == /\ IsCandidate(lower_name, alias)
                      /\ (best = <<"None">> \/ Len(alias) > best[2])
         IN  PrefixLoop(map, Tail(keys), lower_name,
                        IF take THEN <<"Some", Len(alias), map[alias]>> ELSE best)

\* alias.rs:90-107 prefix_match
prefix_match(map, order, lower_name) ==
    LET best == PrefixLoop(map, order, lower_name, <<"None">>)
    IN  IF best = <<"None">> THEN <<"None">> ELSE <<"Some", best[3]>>

\* resolve without lowercasing its argument
resolve_NoLowercase(map, order, name) ==
    LET exact == Lookup(map, name)
        pref  == prefix_match(map, order, name)
    IN  IF exact[1] = "Some" THEN exact[2]
        ELSE IF pref[1] = "Some" THEN pref[2]
        ELSE name

\* resolve trying the prefix match before the exact match
resolve_PrefixFirst(map, order, name) ==
    LET lower == to_lowercase(name)
        exact == Lookup(map, lower)
        pref  == prefix_match(map, order, lower)
    IN  IF pref[1] = "Some" THEN pref[2]
        ELSE IF exact[1] = "Some" THEN exact[2]
        ELSE lower

\* alias.rs:65-80 resolve; `order` is the order in which the HashMap yields its
\* keys to the loop of prefix_match (unspecified by the HashMap)
resolve(map, order, name) ==
    LET lower == to_lowercase(name)
        exact == Lookup(map, lower)
        pref  == prefix_match(map, order, lower)
    IN  IF exact[1] = "Some" THEN exact[2]
        ELSE IF pref[1] = "Some" THEN pref[2]
        ELSE lower

\* matches that compares the lowercased names without resolving
matches_Unresolved(map, order, source_name, canonical) ==
    to_lowercase(source_name) = to_lowercase(canonical)

\* alias.rs:83-85 matches
matches(map, order, source_name, canonical) ==
    resolve(map, order, source_name) = to_lowercase(canonical)

Queries == StringsUpTo(Chars, MaxLen)

----------------------------------------------------------------------------
(* Freshness cache: files *)

\* The processes that share the cache directory
Procs == {"p1", "p2", "p3"}

\* Cache keys (the `source` argument)
Keys == {"swebench", "arena"}

\* The key the concurrent processes contend for
SharedKeys == {"swebench"}

\* cache.rs:29,53 the visible path of a key
Path(k) == <<k, "json">>

\* The temporary file of set being the visible file itself
TmpPath_InPlace(k) == Path(k)

\* cache.rs:54 the temporary path of a key
TmpPath(k) == <<k, "json.tmp">>

\* aa.rs:20 arena.rs:19 swebench.rs:19 livebench.rs:19 the keys the sources
\* hand to get and set: each source uses its own name
SourceKeys == {"artificial-analysis", "arena", "swebench", "livebench"}

FileNames ==
    {Path(k) : k \in Keys \cup SourceKeys}
    \cup {<<k, "json.tmp">> : k \in Keys \cup SourceKeys}

\* One inode per directory entry and one per open file suffice
InodeIds == 1..(Cardinality(FileNames) + Cardinality(Procs))

\* Payloads: data n serializes to a document of n chunks
Data == 1..MaxData

\* The values of a u64 at the model's width
U64 == 0..(2^WordBits - 1)

Times == 0..MaxTime

\* cache.rs:8-13 CacheEntry
CacheEntry(fetched_at, ttl_hours, data) ==
    [fetched_at |-> fetched_at, ttl_hours |-> ttl_hours, data |-> data]

\* cache.rs:50 serde_json::to_string_pretty(&entry): the bytes, in chunks as
\* write hands them to the file; chunk i of the document of `entry`
Serialize(entry) == [i \in 1..entry.data |-> <<entry, i>>]

\* A hole left by a write beyond the end of the file
Hole == <<"hole">>

\* cache.rs:31 serde_json::from_str: the entry of a complete document, else an error
Deserialize(content) ==
    IF /\ content # <<>>
       /\ content[1] # Hole
       /\ content = Serialize(content[1][1])
    THEN <<"Ok", content[1][1]>>
    ELSE <<"Err">>

\* write(2) of one chunk at offset o of a file with content c
WriteAt(c, o, chunk) ==
    [i \in 1..(IF Len(c) > o + 1 THEN Len(c) ELSE o + 1) |->
        IF i = o + 1 THEN chunk
        ELSE IF i <= Len(c) THEN c[i]
        ELSE Hole]

\* The inodes in use: named by the directory or held open
InUse(d, f) == {d[n] : n \in FileNames} \cup {f[p] : p \in Procs}

FreeInode(d, f) == CHOOSE i \in InodeIds : i \notin InUse(d, f)

\* Content of inodes nobody can reach any more is dropped
Collect(ino, d, f) == [i \in InodeIds |-> IF i \in InUse(d, f) THEN ino[i] ELSE <<>>]

\* chrono: (a - b).num_hours(), times in half hours, truncated toward zero
NumHours(a, b) ==
    IF a >= b THEN (a - b) \div 2 ELSE 0 - ((b - a) \div 2)

\* The cast with the unsigned value kept (a comparison in u64)
AsI64_Unsigned(v) == v

\* cache.rs:34 `entry.ttl_hours as i64`: two's complement reinterpretation
AsI64(v) == IF v >= 2^(WordBits - 1) THEN v - 2^WordBits ELSE v

\* cache.rs:33-38 the freshness test of get on a parsed entry
Fresh(entry, t) == NumHours(t, entry.fetched_at) < AsI64(entry.ttl_hours)

\* get with the parse error handed to the caller
GetResult_ParseErrors(content, t) ==
    LET parsed == Deserialize(content)
    IN  IF parsed[1] = "Err" THEN <<"Err">>
        ELSE IF Fresh(parsed[2], t)
             THEN <<"Some", parsed[2].fetched_at, parsed[2].data>>
             ELSE <<"None">>

\* cache.rs:31-38 get after the file has been read: parse and freshness
GetResult(content, t) ==
    LET parsed == Deserialize(content)
    IN  IF parsed[1] = "Err" THEN <<"None">>
        ELSE IF Fresh(parsed[2], t)
             THEN <<"Some", parsed[2].fetched_at, parsed[2].data>>
             ELSE <<"None">>

----------------------------------------------------------------------------
(* Freshness cache: state machine *)

ResolverUnused ==
    /\ bundled = {} /\ override = {} /\ to_canonical = NoMap /\ rpc = "init"
    /\ query = <<>> /\ resolved = <<>> /\ resolved2 = <<>>

FetchUnused ==
    /\ registered = <<>> /\ srcs = <<>> /\ fpc = "start"
    /\ returned = <<>> /\ results = <<>>

\* Nothing of a dataset or a file has been looked at
NotRead == [bundled |-> <<"unread">>, path |-> <<"unread">>, default |-> <<"unread">>]

MainUnused ==
    /\ mpc = "config" /\ cli_refresh = FALSE
    /\ alias_path = <<"unread">> /\ files = NotRead
    /\ command = <<"none">> /\ canon = <<>> /\ output = <<"none">>
    /\ exited = <<"running">>

Idle ==
    /\ pc = [p \in Procs |-> "idle"]
    /\ key = [p \in Procs |-> "swebench"]
    /\ fd = [p \in Procs |-> 0]
    /\ buf = [p \in Procs |-> <<>>]
    /\ off = [p \in Procs |-> 0]
    /\ ret = [p \in Procs |-> <<"none">>]

EmptyDir ==
    /\ dirents = [n \in FileNames |-> 0]
    /\ inodes = [i \in InodeIds |-> <<>>]

CacheUnused ==
    /\ now = 0 /\ EmptyDir /\ Idle
    /\ setters = {}
    /\ ttl_cfg = [p \in Procs |-> 0]

\* Two processes set and get, the third only gets; the clock stands still
InitCache ==
    /\ ResolverUnused /\ FetchUnused /\ MainUnused
    /\ now = 0 /\ EmptyDir /\ Idle
    /\ setters = {"p1", "p2"}
    /\ ttl_cfg \in [Procs -> {1}]

\* One process sets, the others only get
InitOneSetter ==
    /\ ResolverUnused /\ FetchUnused /\ MainUnused
    /\ now = 0 /\ EmptyDir /\ Idle
    /\ setters = {"p1"}
    /\ ttl_cfg \in [Procs -> {1}]

\* One process sets; an entry of the key it does not use is stored already
InitEntry ==
    /\ ResolverUnused /\ FetchUnused /\ MainUnused
    /\ now = 0 /\ Idle
    /\ dirents = [n \in FileNames |-> IF n = Path("arena") THEN 1 ELSE 0]
    /\ inodes = [i \in InodeIds |-> IF i = 1 THEN Serialize(CacheEntry(0, 1, 1)) ELSE <<>>]
    /\ setters = {"p1"}
    /\ ttl_cfg = [p \in Procs |-> 1]

\* One process with any configured ttl
InitTtl ==
    /\ ResolverUnused /\ FetchUnused /\ MainUnused
    /\ now \in Times /\ EmptyDir /\ Idle
    /\ setters = {"p1"}
    /\ ttl_cfg \in {[p \in Procs |-> IF p = "p1" THEN v ELSE 0] : v \in U64}

\* cache.rs:41-56 set up to File::create(&tmp_path): the entry is built and
\* serialized; the temporary file is created, or truncated when it exists
SetCreate(p, k, data) ==
    /\ pc[p] = "idle"
    /\ p \in setters
    /\ LET tmp   == TmpPath(k)
           ino   == IF dirents[tmp] # 0 THEN dirents[tmp] ELSE FreeInode(dirents, fd)
       IN  /\ dirents' = [dirents EXCEPT ![tmp] = ino]
           /\ inodes' = [inodes EXCEPT ![ino] = <<>>]
           /\ fd' = [fd EXCEPT ![p] = ino]
    /\ buf' = [buf EXCEPT ![p] = Serialize(CacheEntry(now, ttl_cfg[p], data))]
    /\ off' = [off EXCEPT ![p] = 0]
    /\ key' = [key EXCEPT ![p] = k]
    /\ ret' = [ret EXCEPT ![p] = <<"none">>]
    /\ pc' = [pc EXCEPT ![p] = "write"]
    /\ UNCHANGED <<now, setters, ttl_cfg, rvars, fvars, mvars>>

\* cache.rs:57 write_all: one write of the next chunk at the file offset
SetWrite(p) ==
    /\ pc[p] = "write"
    /\ off[p] < Len(buf[p])
    /\ inodes' = [inodes EXCEPT ![fd[p]] = WriteAt(@, off[p], buf[p][off[p] + 1])]
    /\ off' = [off EXCEPT ![p] = @ + 1]
    /\ UNCHANGED <<now, dirents, setters, ttl_cfg, pc, key, fd, buf, ret, rvars, fvars, mvars>>

\* cache.rs:58 sync_all, once write_all has written everything
SetSync(p) ==
    /\ pc[p] = "write"
    /\ off[p] = Len(buf[p])
    /\ pc' = [pc EXCEPT ![p] = "rename"]
    /\ UNCHANGED <<now, dirents, inodes, setters, ttl_cfg, key, fd, buf, off, ret, rvars, fvars, mvars>>

\* cache.rs:59-61 rename(tmp_path, path) and return; Err when tmp_path is gone
SetRename(p) ==
    /\ pc[p] = "rename"
    /\ LET tmp == TmpPath(key[p])
           f   == [fd EXCEPT ![p] = 0]
           d   == IF dirents[tmp] = 0 \/ tmp = Path(key[p]) THEN dirents
                  ELSE [dirents EXCEPT ![Path(key[p])] = dirents[tmp], ![tmp] = 0]
       IN  /\ dirents' = d
           /\ fd' = f
           /\ inodes' = Collect(inodes, d, f)
           /\ ret' = [ret EXCEPT ![p] = IF dirents[tmp] = 0 THEN <<"set", "Err">>
                                        ELSE <<"set", "Ok">>]
    /\ pc' = [pc EXCEPT ![p] = "idle"]
    /\ buf' = [buf EXCEPT ![p] = <<>>]
    /\ off' = [off EXCEPT ![p] = 0]
    /\ UNCHANGED <<now, setters, ttl_cfg, key, rvars, fvars, mvars>>

\* cache.rs:28-30 get: read_to_string opens the visible path; a missing file is None
GetOpen(p, k) ==
    /\ pc[p] = "idle"
    /\ key' = [key EXCEPT ![p] = k]
    /\ buf' = [buf EXCEPT ![p] = <<>>]
    /\ IF dirents[Path(k)] = 0
       THEN /\ ret' = [ret EXCEPT ![p] = <<"get", <<"None">>, <<"missing">>, now>>]
            /\ UNCHANGED <<pc, fd>>
       ELSE /\ ret' = [ret EXCEPT ![p] = <<"none">>]
            /\ fd' = [fd EXCEPT ![p] = dirents[Path(k)]]
            /\ pc' = [pc EXCEPT ![p] = "read"]
    /\ UNCHANGED <<now, dirents, inodes, setters, ttl_cfg, off, rvars, fvars, mvars>>

\* cache.rs:30 read_to_string: one read of the next chunk
GetRead(p) ==
    /\ pc[p] = "read"
    /\ Len(buf[p]) < Len(inodes[fd[p]])
    /\ buf' = [buf EXCEPT ![p] = Append(@, inodes[fd[p]][Len(@) + 1])]
    /\ UNCHANGED <<now, dirents, inodes, setters, ttl_cfg, pc, key, fd, off, ret, rvars, fvars, mvars>>

\* get that removes the file when it has no fresh entry to return
GetReturn_RemovesUnusable(p) ==
    /\ pc[p] = "read"
    /\ Len(buf[p]) >= Len(inodes[fd[p]])
    /\ ret' = [ret EXCEPT ![p] = <<"get", GetResult(buf[p], now), buf[p], now>>]
    /\ LET f == [fd EXCEPT ![p] = 0]
           d == IF GetResult(buf[p], now) = <<"None">>
                THEN [dirents EXCEPT ![Path(key[p])] = 0] ELSE dirents
       IN  /\ fd' = f
           /\ dirents' = d
           /\ inodes' = Collect(inodes, d, f)
    /\ pc' = [pc EXCEPT ![p] = "idle"]
    /\ buf' = [buf EXCEPT ![p] = <<>>]
    /\ UNCHANGED <<now, setters, ttl_cfg, key, off, rvars, fvars, mvars>>

\* cache.rs:30-38 read_to_string reaches the end of the file; get parses what it
\* read, tests the age and returns
GetReturn(p) ==
    /\ pc[p] = "read"
    /\ Len(buf[p]) >= Len(inodes[fd[p]])
    /\ ret' = [ret EXCEPT ![p] = <<"get", GetResult(buf[p], now), buf[p], now>>]
    /\ LET f == [fd EXCEPT ![p] = 0]
       IN  /\ fd' = f
           /\ inodes' = Collect(inodes, dirents, f)
    /\ pc' = [pc EXCEPT ![p] = "idle"]
    /\ buf' = [buf EXCEPT ![p] = <<>>]
    /\ UNCHANGED <<now, dirents, setters, ttl_cfg, key, off, rvars, fvars, mvars>>

\* The wall clock is read at another value: time passes, or the clock is set back
ClockMoves ==
    /\ \E t \in Times : t # now /\ now' = t
    /\ UNCHANGED <<dirents, inodes, setters, ttl_cfg, pc, key, fd, buf, off, ret, rvars, fvars, mvars>>

\* cache.rs:42-56 a call of set fails before the temporary file exists:
\* create_dir_all, to_string_pretty or File::create returns an error and `?`
\* returns it
SetFailsEarly(p, k) ==
    /\ pc[p] = "idle"
    /\ p \in setters
    /\ key' = [key EXCEPT ![p] = k]
    /\ ret' = [ret EXCEPT ![p] = <<"set", "Err">>]
    /\ UNCHANGED <<now, dirents, inodes, setters, ttl_cfg, pc, fd, buf, off, rvars, fvars, mvars>>

\* set that removes the temporary file and the entry file when a step fails
SetFails_Cleanup(p) ==
    /\ pc[p] \in {"write", "rename"}
    /\ LET f == [fd EXCEPT ![p] = 0]
           d == [dirents EXCEPT ![TmpPath(key[p])] = 0, ![Path(key[p])] = 0]
       IN  /\ fd' = f
           /\ dirents' = d
           /\ inodes' = Collect(inodes, d, f)
    /\ ret' = [ret EXCEPT ![p] = <<"set", "Err">>]
    /\ pc' = [pc EXCEPT ![p] = "idle"]
    /\ buf' = [buf EXCEPT ![p] = <<>>]
    /\ off' = [off EXCEPT ![p] = 0]
    /\ UNCHANGED <<now, setters, ttl_cfg, key, rvars, fvars, mvars>>

\* cache.rs:42-61 a call of set fails after the temporary file was created:
\* write_all, sync_all or rename returns an error, `?` returns it, the file is
\* closed and the temporary file stays behind
SetFails(p) ==
    /\ pc[p] \in {"write", "rename"}
    /\ LET f == [fd EXCEPT ![p] = 0]
       IN  /\ fd' = f
           /\ inodes' = Collect(inodes, dirents, f)
    /\ ret' = [ret EXCEPT ![p] = <<"set", "Err">>]
    /\ pc' = [pc EXCEPT ![p] = "idle"]
    /\ buf' = [buf EXCEPT ![p] = <<>>]
    /\ off' = [off EXCEPT ![p] = 0]
    /\ UNCHANGED <<now, dirents, setters, ttl_cfg, key, rvars, fvars, mvars>>

\* cache.rs:30 read_to_string returns an error on a file that exists (no
\* permission, an I/O error, bytes that are not UTF-8): `.ok()?` returns None
GetReadError(p) ==
    /\ pc[p] = "read"
    /\ ret' = [ret EXCEPT ![p] = <<"get", <<"None">>, <<"unreadable">>, now>>]
    /\ LET f == [fd EXCEPT ![p] = 0]
       IN  /\ fd' = f
           /\ inodes' = Collect(inodes, dirents, f)
    /\ pc' = [pc EXCEPT ![p] = "idle"]
    /\ buf' = [buf EXCEPT ![p] = <<>>]
    /\ UNCHANGED <<now, dirents, setters, ttl_cfg, key, off, rvars, fvars, mvars>>

\* What is left of a document when its file is cut short or overwritten with
\* other bytes
Damaged(content) == {SubSeq(content, 1, Len(content) - 1), <<Hole>>}

\* Another program damages the visible file of key k, a document until then
FileDamaged(k) ==
    /\ dirents[Path(k)] # 0
    /\ Deserialize(inodes[dirents[Path(k)]])[1] = "Ok"
    /\ \E c \in Damaged(inodes[dirents[Path(k)]]) :
          inodes' = [inodes EXCEPT ![dirents[Path(k)]] = c]
    /\ UNCHANGED <<now, dirents, setters, ttl_cfg, pc, key, fd, buf, off, ret, rvars, fvars, mvars>>

\* Path::extension of a file name of the cache directory
Extension(name) == IF name[2] = "json.tmp" THEN "tmp" ELSE name[2]

\* The test of clear with the temporary files taken for the entries
IsJson_Tmp(name) == Extension(name) = "tmp"

\* cache.rs:68 extension().is_some_and(|e| e == "json")
IsJson(name) == Extension(name) = "json"

\* cache.rs:64-66 clear: read_dir of the cache directory (a directory that
\* does not exist has no entries and clear returns Ok)
ClearCalled(p) ==
    /\ pc[p] = "idle"
    /\ pc' = [pc EXCEPT ![p] = "clear"]
    /\ ret' = [ret EXCEPT ![p] = <<"none">>]
    /\ UNCHANGED <<now, dirents, inodes, setters, ttl_cfg, key, fd, buf, off, rvars, fvars>>

\* A call of clear by a user of the cache alone
ClearStart(p) == ClearCalled(p) /\ UNCHANGED mvars

\* cache.rs:66-70 the loop of clear reaches an entry with extension json, in
\* the order read_dir yields them, and removes it
ClearRemove(p) ==
    /\ pc[p] = "clear"
    /\ \E n \in FileNames :
          /\ dirents[n] # 0
          /\ IsJson(n)
          /\ LET d == [dirents EXCEPT ![n] = 0]
             IN  /\ dirents' = d
                 /\ inodes' = Collect(inodes, d, fd)
    /\ UNCHANGED <<now, setters, ttl_cfg, pc, key, fd, buf, off, ret, rvars, fvars, mvars>>

\* cache.rs:66,67,69 read_dir, an entry or remove_file returns an error and
\* `?` returns it: the entries not yet removed stay
ClearFails(p) ==
    /\ pc[p] = "clear"
    /\ ret' = [ret EXCEPT ![p] = <<"clear", "Err">>]
    /\ pc' = [pc EXCEPT ![p] = "idle"]
    /\ UNCHANGED <<now, dirents, inodes, setters, ttl_cfg, key, fd, buf, off, rvars, fvars, mvars>>

\* cache.rs:66-74 the loop of clear has passed every entry: Ok(())
ClearReturn(p) ==
    /\ pc[p] = "clear"
    /\ \A n \in FileNames : dirents[n] # 0 => ~IsJson(n)
    /\ ret' = [ret EXCEPT ![p] = <<"clear", "Ok">>]
    /\ pc' = [pc EXCEPT ![p] = "idle"]
    /\ UNCHANGED <<now, dirents, inodes, setters, ttl_cfg, key, fd, buf, off, rvars, fvars, mvars>>

NextCache ==
    \/ \E p \in Procs, k \in SharedKeys, data \in Data : SetCreate(p, k, data)
    \/ \E p \in Procs : SetWrite(p)
    \/ \E p \in Procs : SetSync(p)
    \/ \E p \in Procs : SetRename(p)
    \/ \E p \in Procs, k \in SharedKeys : GetOpen(p, k)
    \/ \E p \in Procs : GetRead(p)
    \/ \E p \in Procs : GetReturn(p)

NextTtl ==
    \/ \E k \in SharedKeys, data \in Data : SetCreate("p1", k, data)
    \/ SetWrite("p1")
    \/ SetSync("p1")
    \/ SetRename("p1")
    \/ \E k \in SharedKeys : GetOpen("p1", k)
    \/ GetRead("p1")
    \/ GetReturn("p1")
    \/ ClockMoves

\* One process alone with the cache directory: set, get and clear of every
\* key, and sets that fail
NextStore ==
    \/ \E k \in Keys, data \in Data : SetCreate("p1", k, data)
    \/ SetWrite("p1")
    \/ SetSync("p1")
    \/ SetRename("p1")
    \/ SetFails("p1")
    \/ \E k \in Keys : SetFailsEarly("p1", k)
    \/ \E k \in Keys : GetOpen("p1", k)
    \/ GetRead("p1")
    \/ GetReturn("p1")
    \/ ClearStart("p1")
    \/ ClearRemove("p1")
    \/ ClearFails("p1")
    \/ ClearReturn("p1")

\* One process alone with files that are damaged from outside and reads that
\* fail
NextDamage ==
    \/ \E k \in Keys, data \in Data : SetCreate("p1", k, data)
    \/ SetWrite("p1")
    \/ SetSync("p1")
    \/ SetRename("p1")
    \/ \E k \in Keys : GetOpen("p1", k)
    \/ GetRead("p1")
    \/ GetReturn("p1")
    \/ GetReadError("p1")
    \/ \E k \in Keys : FileDamaged(k)

\* One process and one key with everything that can happen to the entry file:
\* set, get, clear, damage from outside, and the clock
NextEntry ==
    \/ \E k \in SharedKeys, data \in Data : SetCreate("p1", k, data)
    \/ SetWrite("p1")
    \/ SetSync("p1")
    \/ SetRename("p1")
    \/ \E k \in SharedKeys : GetOpen("p1", k)
    \/ GetRead("p1")
    \/ GetReturn("p1")
    \/ GetReadError("p1")
    \/ \E k \in SharedKeys : FileDamaged(k)
    \/ ClearStart("p1")
    \/ ClearRemove("p1")
    \/ ClearFails("p1")
    \/ ClearReturn("p1")
    \/ ClockMoves

SpecCache == InitCache /\ [][NextCache]_vars

SpecOneSetter == InitOneSetter /\ [][NextCache]_vars

SpecTtl == InitTtl /\ [][NextTtl]_vars

SpecStore == InitOneSetter /\ [][NextStore]_vars

SpecDamage == InitOneSetter /\ [][NextDamage]_vars

SpecEntry == InitEntry /\ [][NextEntry]_vars

----------------------------------------------------------------------------
(* Freshness cache: properties *)

\* The complete documents: the serialization of exactly one entry
IsComplete(content) ==
    /\ content # <<>>
    /\ \E entry \in {content[1][1]} :
          /\ content[1] # <<"hole">>
          /\ Len(content) = entry.data
          /\ \A i \in 1..Len(content) : content[i] = <<entry, i>>

\* The content of the visible file of key k (empty when there is none)
Visible(k) == IF dirents[<<k, "json">>] = 0 THEN <<>> ELSE inodes[dirents[<<k, "json">>]]

\* The gets that returned after reading a file
FinishedReads == {p \in Procs : ret[p][1] = "get" /\ ret[p][3] # <<"missing">>}

\* C1: with concurrent sets of one key the visible file always holds the
\* complete serialization of exactly one written entry, and no get reads a
\* truncated or mixed file.
C1_ConcurrentSetsNeverCorrupt ==
    /\ \A k \in Keys : dirents[<<k, "json">>] # 0 => IsComplete(Visible(k))
    /\ \A p \in FinishedReads : IsComplete(ret[p][3])

\* C2: with one process setting, every get observes a complete entry: the
\* visible file is complete at all times, the file a get has open is complete
\* and what the get has read so far is a prefix of it, and a get that returns
\* has read one complete document and returns its fetched_at and data.
C2_ReadersSeeCompleteEntries ==
    /\ \A k \in Keys : dirents[<<k, "json">>] # 0 => IsComplete(Visible(k))
    /\ \A p \in Procs : pc[p] = "read" =>
          /\ IsComplete(inodes[fd[p]])
          /\ Len(buf[p]) <= Len(inodes[fd[p]])
          /\ \A i \in 1..Len(buf[p]) : buf[p][i] = inodes[fd[p]][i]
    /\ \A p \in FinishedReads :
          /\ IsComplete(ret[p][3])
          /\ ret[p][2] = <<"Some", ret[p][3][1][1].fetched_at, ret[p][3][1][1].data>>

\* A get half way through the previous file while the visible path already
\* names the new one and the setter is writing the next temporary file
C2_Witness ==
    \E p \in Procs \ {"p1"} :
        /\ pc[p] = "read"
        /\ dirents[<<key[p], "json">>] # 0
        /\ fd[p] # dirents[<<key[p], "json">>]
        /\ 0 < Len(buf[p]) /\ Len(buf[p]) < Len(inodes[fd[p]])
        /\ Visible(key[p]) # inodes[fd[p]]
        /\ pc["p1"] = "write" /\ off["p1"] > 0

\* C10: get on a parseable entry returns (fetched_at, data) exactly when the age
\* in whole hours is strictly less than the stored ttl_hours, for every stored
\* ttl_hours (the largest unsigned values included), and none otherwise.
C10_FreshIffAgeBelowStoredTtl ==
    \A p \in FinishedReads :
        IsComplete(ret[p][3]) =>
            LET entry == ret[p][3][1][1]
                age   == NumHours(ret[p][4], entry.fetched_at)
            IN  IF age < entry.ttl_hours
                THEN ret[p][2] = <<"Some", entry.fetched_at, entry.data>>
                ELSE ret[p][2] = <<"None">>

\* The gets that returned without a document: no file, a read that failed, or
\* content that does not parse
ReadNothing ==
    {p \in Procs : /\ ret[p][1] = "get"
                   /\ \/ ret[p][3] = <<"missing">>
                      \/ ret[p][3] = <<"unreadable">>
                      \/ ~IsComplete(ret[p][3])}

C19_ClearedUntilNextSet ==
    [][/\ ret'["p1"] = <<"clear", "Ok">> => \A k \in Keys : dirents'[Path(k)] = 0
       /\ \A k \in Keys :
             dirents[Path(k)] = 0 /\ dirents'[Path(k)] # 0 =>
                 /\ pc["p1"] = "rename" /\ key["p1"] = k
                 /\ ret'["p1"] = <<"set", "Ok">>
       /\ \A k \in Keys :
             /\ pc["p1"] = "idle" /\ ret'["p1"][1] = "get" /\ key'["p1"] = k
             /\ dirents[Path(k)] = 0
             => ret'["p1"][2] = <<"None">>]_vars

\* A clear has returned Ok after it removed the entry file of one key (inode 1,
\* free again) and passed over the temporary file a failed set of the other
\* key left behind (inode 2)
C19_Witness ==
    /\ ret["p1"] = <<"clear", "Ok">>
    /\ \E k \in Keys : dirents[<<k, "json.tmp">>] = 2
    /\ 1 \notin InUse(dirents, fd)

\* A step of a set of the process other than a rename that succeeds: the set
\* starts, writes, syncs or fails
SetStepBeforeRename ==
    \/ pc["p1"] = "idle" /\ pc'["p1"] = "write"
    \/ pc["p1"] = "idle" /\ pc'["p1"] = "idle" /\ ret'["p1"][1] = "set"
    \/ pc["p1"] = "write"
    \/ pc["p1"] = "rename" /\ ret'["p1"][2] = "Err"

\* C28: no step of a set before its rename, and no failure of a set, changes
\* the file at the visible path of a key: the name leads to the same file with
\* the same content, so a get of the key returns after a failed set what it
\* would have returned before it.
C28_FailedSetLeavesEntry ==
    [][SetStepBeforeRename =>
          \A k \in Keys :
              /\ dirents'[Path(k)] = dirents[Path(k)]
              /\ dirents[Path(k)] # 0 =>
                     inodes'[dirents[Path(k)]] = inodes[dirents[Path(k)]]
              /\ \A t \in Times :
                     GetResult(IF dirents'[Path(k)] = 0 THEN <<>>
                               ELSE inodes'[dirents'[Path(k)]], t)
                         = GetResult(Visible(k), t)]_vars

\* A set of a key has failed after it wrote a part of the new entry: the
\* temporary file holds the part, and the entry stored before is complete and
\* still at the visible path
C28_Witness ==
    /\ pc["p1"] = "idle"
    /\ ret["p1"] = <<"set", "Err">>
    /\ dirents[Path(key["p1"])] # 0
    /\ IsComplete(Visible(key["p1"]))
    /\ dirents[TmpPath(key["p1"])] # 0
    /\ inodes[dirents[TmpPath(key["p1"])]] # <<>>
    /\ ~IsComplete(inodes[dirents[TmpPath(key["p1"])]])

\* A step of a get of the process: it opens the entry file, finds none, reads
\* a chunk, or returns
GetStep ==
    \/ pc["p1"] = "idle" /\ pc'["p1"] = "read"
    \/ /\ pc["p1"] = "idle" /\ pc'["p1"] = "idle" /\ now' = now
       /\ ret'["p1"][1] = "get"
       /\ dirents[Path(key'["p1"])] = 0
    \/ pc["p1"] = "read" /\ (buf'["p1"] # buf["p1"] \/ pc'["p1"] = "idle")

\* The step leaves every name of the directory and the content under it alone
FilesUnchanged ==
    \A n \in FileNames :
        /\ dirents'[n] = dirents[n]
        /\ dirents[n] # 0 => inodes'[dirents[n]] = inodes[dirents[n]]

\* C26: no step of a get changes a name of the cache directory or the content
\* of a file, whether the get hits, misses, reads a damaged file or finds the
\* entry stale; the entry file of a key is removed or replaced only by the
\* rename of a set of that key or by a clear.
C26_GetLeavesFilesAlone ==
    [][/\ GetStep => FilesUnchanged
       /\ \A k \in Keys :
             dirents[Path(k)] # 0 /\ dirents'[Path(k)] # dirents[Path(k)] =>
                 \/ pc["p1"] = "rename" /\ key["p1"] = k /\ ret'["p1"] = <<"set", "Ok">>
                 \/ pc["p1"] = "clear" /\ dirents'[Path(k)] = 0]_vars

\* A get has returned none for an entry that is stale, and the entry file is
\* still there as the get read it, next to the entry of the other key
C26_Witness ==
    /\ pc["p1"] = "idle"
    /\ ret["p1"][1] = "get" /\ ret["p1"][2] = <<"None">>
    /\ ret["p1"][3] # <<"missing">> /\ ret["p1"][3] # <<"unreadable">>
    /\ IsComplete(ret["p1"][3])
    /\ Visible(key["p1"]) = ret["p1"][3]
    /\ dirents[Path("arena")] # 0 /\ key["p1"] # "arena"

----------------------------------------------------------------------------
(* Identity resolver: state machine *)

InitResolve ==
    /\ bundled \in Datasets
    /\ override \in {d \in Datasets : Cardinality(d) + Cardinality(bundled) <= MaxEntries}
    /\ to_canonical = NoMap
    /\ rpc = "init"
    /\ query = <<>>
    /\ resolved = <<>>
    /\ resolved2 = <<>>
    /\ registered = <<>> /\ srcs = <<>> /\ fpc = "start"
    /\ returned = <<>> /\ results = <<>>
    /\ CacheUnused /\ MainUnused

\* alias.rs:21-47 AliasMap::load: the bundled dataset, then the override on top
Load ==
    /\ rpc = "init"
    /\ \E ob \in Orders(bundled), oo \in Orders(override) :
          to_canonical' = parse_into(oo, parse_into(ob, NoMap))
    /\ rpc' = "loaded"
    /\ UNCHANGED <<bundled, override, query, resolved, resolved2, fvars, cvars, mvars>>

\* alias.rs:65-80 a call of resolve(name) on the loaded map
Resolve ==
    /\ rpc = "loaded"
    /\ \E name \in Queries, order \in Orders(DOMAIN to_canonical) :
          /\ query' = name
          /\ resolved' = resolve(to_canonical, order, name)
    /\ rpc' = "resolved"
    /\ UNCHANGED <<bundled, override, to_canonical, resolved2, fvars, cvars, mvars>>

\* alias.rs:65-80 resolve called on the value a previous resolve returned
ResolveAgain ==
    /\ rpc = "resolved"
    /\ \E order \in Orders(DOMAIN to_canonical) :
          resolved2' = resolve(to_canonical, order, resolved)
    /\ rpc' = "again"
    /\ UNCHANGED <<bundled, override, to_canonical, query, resolved, fvars, cvars, mvars>>

NextResolve == Load \/ Resolve \/ ResolveAgain

SpecResolve == InitResolve /\ [][NextResolve]_vars

----------------------------------------------------------------------------
(* Identity resolver: properties *)

\* The lowercased query of the current resolve call
LowerQuery == [i \in 1..Len(query) |-> IF query[i] = "A" THEN "a" ELSE query[i]]

\* Does entry e register the lowercase key k, as its canonical or as an alias
Registers(e, k) ==
    \/ to_lowercase(e.canonical) = k
    \/ \E i \in 1..Len(e.aliases) : to_lowercase(e.aliases[i]) = k

\* The lowercase canonicals under which dataset d registers key k
CanonicalsOf(d, k) == {to_lowercase(e.canonical) : e \in {x \in d : Registers(x, k)}}

\* The keys of the map that the prefix rule of the specification admits for the
\* lowercased query: strictly shorter, a prefix, followed by '-', '(' or space
ValidPrefixes ==
    {alias \in DOMAIN to_canonical :
        /\ Len(alias) < Len(LowerQuery)
        /\ SubSeq(LowerQuery, 1, Len(alias)) = alias
        /\ LowerQuery[Len(alias) + 1] \in Separators}

\* The keys followed by a version dot in the query
DotPrefixes ==
    {alias \in DOMAIN to_canonical :
        /\ Len(alias) < Len(LowerQuery)
        /\ SubSeq(LowerQuery, 1, Len(alias)) = alias
        /\ LowerQuery[Len(alias) + 1] = "."}

NoExact == rpc = "resolved" /\ LowerQuery \notin DOMAIN to_canonical

\* C5: resolve is idempotent, resolve(resolve(n)) = resolve(n), for every map that
\* load builds from a bundled and an override dataset and every name n.
C5_Idempotent == rpc = "again" => resolved2 = resolved

\* C6 as stated: for every alias a registered under canonical c in the loaded
\* datasets, resolve of a in any letter case returns lowercase(c).
C6_AliasResolvesToItsCanonical ==
    rpc = "resolved" =>
        \A e \in bundled \cup override :
            \A i \in 1..Len(e.aliases) :
                to_lowercase(e.aliases[i]) = LowerQuery
                    => resolved = to_lowercase(e.canonical)

\* C6 as amended: resolve of a registered alias in any letter case returns the
\* lowercase canonical of an entry that registers the same key (as canonical or
\* alias) in the last dataset that registers it: the override if it does, else
\* the bundled dataset; so lowercase(c) whenever that dataset registers the key
\* under c alone.
C6_AliasResolvesToLastRegistration ==
    rpc = "resolved" =>
        \A e \in bundled \cup override :
            \A i \in 1..Len(e.aliases) :
                to_lowercase(e.aliases[i]) = LowerQuery
                    => resolved \in (IF CanonicalsOf(override, LowerQuery) # {}
                                     THEN CanonicalsOf(override, LowerQuery)
                                     ELSE CanonicalsOf(bundled, LowerQuery))

\* An alias written in lower case, queried in upper case, resolved to the one
\* canonical it is registered under
C6_Witness ==
    /\ rpc = "resolved"
    /\ query = <<"A">>
    /\ \E e \in bundled : e.aliases = << <<"a">> >> /\ e.canonical = <<"a", "-">>
    /\ CanonicalsOf(bundled \cup override, <<"a">>) = {<<"a", "-">>}
    /\ resolved = <<"a", "-">>

\* C7: without an exact match the result comes from a key that is strictly
\* shorter than the lowercased query, a prefix of it and followed by '-', '(' or
\* space; with no such key (a following '.' does not count) it is the lowercased
\* query itself.
C7_PrefixNeedsSeparator ==
    NoExact =>
        /\ resolved = LowerQuery \/ \E alias \in ValidPrefixes : resolved = to_canonical[alias]
        /\ ValidPrefixes = {} => resolved = LowerQuery

\* A query that continues a key with a version dot falls through to itself
C7_Witness ==
    /\ NoExact
    /\ DotPrefixes # {}
    /\ ValidPrefixes = {}
    /\ \A alias \in DotPrefixes : to_canonical[alias] # LowerQuery
    /\ resolved = LowerQuery

\* C8: without an exact match and with valid prefix candidates, resolve returns
\* the canonical of the longest candidate.
C8_LongestPrefixWins ==
    NoExact =>
        \A alias \in ValidPrefixes :
            (\A other \in ValidPrefixes : Len(other) <= Len(alias))
                => resolved = to_canonical[alias]

\* Two candidates with different canonicals; the longer one decided
C8_Witness ==
    /\ NoExact
    /\ \E long, short \in ValidPrefixes :
          /\ Len(short) < Len(long)
          /\ to_canonical[short] # to_canonical[long]
          /\ \A other \in ValidPrefixes : Len(other) <= Len(long)
          /\ resolved = to_canonical[long]

\* C9 as stated: resolve returns a non-empty lowercase string for every input;
\* an exact match takes precedence; with no match at all the result is the
\* lowercased input.
C9_NonEmptyLowercaseTotal ==
    rpc = "resolved" =>
        /\ resolved # <<>>
        /\ IsLower(resolved)
        /\ LowerQuery \in DOMAIN to_canonical => resolved = to_canonical[LowerQuery]
        /\ (NoExact /\ ValidPrefixes = {}) => resolved = LowerQuery

\* C9 as amended: the result is a lowercase string, non-empty when the input is
\* non-empty (the canonicals of the datasets being non-empty); the rest as stated.
C9_LowercaseTotal ==
    rpc = "resolved" =>
        /\ query # <<>> => resolved # <<>>
        /\ IsLower(resolved)
        /\ LowerQuery \in DOMAIN to_canonical => resolved = to_canonical[LowerQuery]
        /\ (NoExact /\ ValidPrefixes = {}) => resolved = LowerQuery

\* An exact match that differs from what the prefix rule would have given
C9_Witness ==
    /\ rpc = "resolved"
    /\ LowerQuery \in DOMAIN to_canonical
    /\ \E alias \in ValidPrefixes : to_canonical[alias] # to_canonical[LowerQuery]
    /\ resolved = to_canonical[LowerQuery]
    /\ query # LowerQuery

\* C24: for a fixed map and a fixed query resolve returns the same result for
\* every order in which the map can be iterated, several prefix candidates
\* included.
C24_ResolveIgnoresIterationOrder ==
    rpc = "resolved" =>
        \A order \in Orders(DOMAIN to_canonical) :
            resolve(to_canonical, order, query) = resolved

\* Two prefix candidates with different canonicals, each visited first in one
\* iteration order, and resolve returns the same result in both orders
C24_Witness ==
    /\ NoExact
    /\ ValidPrefixes # {}
    /\ \E o1, o2 \in Orders(DOMAIN to_canonical) :
          /\ o1[1] \in ValidPrefixes /\ o2[1] \in ValidPrefixes
          /\ to_canonical[o1[1]] # to_canonical[o2[1]]
          /\ resolve(to_canonical, o1, query) = resolved
          /\ resolve(to_canonical, o2, query) = resolved

----------------------------------------------------------------------------
(* Aggregation pipeline: sources and their results *)

\* Source::name of the implementations under src/src/sources
SourceNames == {"mock", "artificial-analysis", "arena", "swebench"}

\* models.rs:23-29 ModelScore (model, source_model_name)
Score(model, source_model_name) ==
    [model |-> model, source_model_name |-> source_model_name]

\* Score lists a source returns
ScoreLists ==
    {<<>>,
     <<Score(<<"a">>, <<"A">>)>>,
     <<Score(<<"a">>, <<"A">>), Score(<<"a", ".", "a">>, <<"A", ".", "a">>)>>,
     <<Score(<<"A", "-">>, <<"A", " ", "a">>), Score(<<"a">>, <<"a", "-", "a">>)>>}

\* Option<DateTime<Utc>> values
NoTime == <<"None">>
SomeTime(t) == <<"Some", t>>

\* models.rs:14-21 SourceStatus
StatusOk == <<"Ok">>
StatusCached == <<"Cached">>
StatusUnavailable == <<"Unavailable">>
StatusError(msg) == <<"Error", msg>>

Messages == {"HTTP 500", "timeout"}

\* models.rs:5-11 SourceResult
SourceResult(source, fetched_at, status, scores) ==
    [source |-> source, fetched_at |-> fetched_at, status |-> status, scores |-> scores]

\* sources/mod.rs:8-11 what Source::fetch of the source `name` can return: Ok(result)
\* with the source's own name (every implementation sets source: self.name()), or Err(e)
FetchReturns(name) ==
    {<<"Ok", SourceResult(name, SomeTime(1), StatusOk, sc)>> : sc \in ScoreLists}
    \cup {<<"Ok", SourceResult(name, SomeTime(0), StatusCached, sc)>> : sc \in ScoreLists}
    \cup {<<"Ok", SourceResult(name, NoTime, StatusUnavailable, <<>>)>>}
    \cup {<<"Ok", SourceResult(name, NoTime, StatusError(m), <<>>)>> : m \in Messages}
    \cup {<<"Err", m>> : m \in Messages}

\* main.rs:106-113 get_sources
get_sources(real) == IF real = <<>> THEN <<"mock">> ELSE real

\* The closure of fetch_all with a failure reported as Unavailable, message lost
Converted_Unavailable(name, got) ==
    IF got[1] = "Ok" THEN got[2]
    ELSE SourceResult(name, NoTime, StatusUnavailable, <<>>)

\* main.rs:94-102 the closure of fetch_all applied to what s.fetch returned
Converted(name, got) ==
    IF got[1] = "Ok" THEN got[2]
    ELSE SourceResult(name, NoTime, StatusError(got[2]), <<>>)

\* collect with the failed sources left out of the vector
Collected_SkipErrors(acc, name, got) ==
    IF got[1] = "Ok" THEN Append(acc, got[2]) ELSE acc

\* main.rs:93-103 iter().map(..).collect(): the next element of the vector
Collected(acc, name, got) == Append(acc, Converted(name, got))

\* Lists of distinct registered sources
Registrations ==
    {r \in StringsUpTo(SourceNames, MaxSources) :
        \A i, j \in 1..Len(r) : i # j => r[i] # r[j]}

----------------------------------------------------------------------------
(* Aggregation pipeline: fetch_all *)

InitFetch ==
    /\ registered \in Registrations
    /\ srcs = <<>>
    /\ fpc = "start"
    /\ returned = <<>>
    /\ results = <<>>
    /\ ResolverUnused
    /\ CacheUnused /\ MainUnused

\* main.rs:92 fetch_all is entered: srcs = get_sources()
FetchAllStart ==
    /\ fpc = "start"
    /\ srcs' = get_sources(registered)
    /\ fpc' = "fetching"
    /\ UNCHANGED <<registered, returned, results, rvars, cvars, mvars>>

\* fetch_all that visits the sources from the last to the first
FetchOne_LastFirst ==
    /\ fpc = "fetching"
    /\ Len(returned) < Len(srcs)
    /\ LET name == srcs[Len(srcs) - Len(returned)]
       IN  \E got \in FetchReturns(name) :
              /\ returned' = Append(returned, got)
              /\ results' = Collected(results, name, got)
    /\ UNCHANGED <<registered, srcs, fpc, rvars, cvars, mvars>>

\* main.rs:94-102 the next source in registration order is fetched and converted
FetchOne ==
    /\ fpc = "fetching"
    /\ Len(returned) < Len(srcs)
    /\ LET name == srcs[Len(returned) + 1]
       IN  \E got \in FetchReturns(name) :
              /\ returned' = Append(returned, got)
              /\ results' = Collected(results, name, got)
    /\ UNCHANGED <<registered, srcs, fpc, rvars, cvars, mvars>>

\* main.rs:103 the iterator is exhausted and fetch_all returns the vector
FetchAllReturn ==
    /\ fpc = "fetching"
    /\ Len(returned) = Len(srcs)
    /\ fpc' = "done"
    /\ UNCHANGED <<registered, srcs, returned, results, rvars, cvars, mvars>>

NextFetch == FetchAllStart \/ FetchOne \/ FetchAllReturn

SpecFetch == InitFetch /\ [][NextFetch]_vars

----------------------------------------------------------------------------
(* Aggregation pipeline: properties *)

\* C3: fetch_all returns one SourceResult per registered source, the i-th
\* belonging to the i-th source, whatever mix of sources succeed or fail.
C3_OnePerSourceInOrder ==
    fpc = "done" =>
        /\ Len(results) = Len(srcs)
        /\ \A i \in 1..Len(results) : results[i].source = srcs[i]

\* Three sources, the second failed, the first and third succeeded
C3_Witness ==
    /\ fpc = "done"
    /\ Len(srcs) = 3
    /\ returned[1][1] = "Ok" /\ returned[2][1] = "Err" /\ returned[3][1] = "Ok"
    /\ results[2].source = srcs[2]

\* C4: a failed fetch becomes that source's SourceResult with status
\* Error(message), no scores and no fetched_at; every other source's result is
\* what its own fetch returned; fetch_all returns a full vector all the same.
C4_FailureIsolated ==
    /\ fpc = "done" => Len(results) = Len(srcs)
    /\ Len(results) = Len(returned)
    /\ \A i \in 1..Len(results) :
          /\ returned[i][1] = "Err" =>
                /\ results[i].source = srcs[i]
                /\ results[i].status = <<"Error", returned[i][2]>>
                /\ results[i].scores = <<>>
                /\ results[i].fetched_at = <<"None">>
          /\ returned[i][1] = "Ok" => results[i] = returned[i][2]

\* A failure followed by a success that kept its scores
C4_Witness ==
    /\ fpc = "done"
    /\ \E i, j \in 1..Len(results) :
          /\ i < j
          /\ returned[i][1] = "Err"
          /\ results[i].status = <<"Error", returned[i][2]>>
          /\ returned[j][1] = "Ok"
          /\ results[j].status = <<"Ok">>
          /\ results[j].scores # <<>>

----------------------------------------------------------------------------
(* Sources: Source::fetch through the cache *)

\* aa.rs:141-199 arena.rs:128-174 parse_cached, swebench.rs:61-139 parse_scores:
\* the scores a source reads out of the payload d; payload 1 has no row with a
\* usable score
parse_cached(d) == [i \in 1..(d - 1) |-> Score(<<"a">>, <<"A">>)]

\* mock.rs:16-54 MockSource::fetch: two scores, no cache
MockResult(t) ==
    SourceResult("mock", SomeTime(t), StatusOk,
                 <<Score(<<"a">>, <<"A">>), Score(<<"a", ".", "a">>, <<"A", ".", "a">>)>>)

\* The source whose fetch is running, which is also its cache key
Current == srcs[Len(returned) + 1]

\* What the files of a key can hold when a run starts
EntryStates == {"absent", "stale", "fresh", "corrupt"}

\* The inode of the stored entry of a key
KeyInode(k) ==
    IF k = "artificial-analysis" THEN 1
    ELSE IF k = "arena" THEN 2
    ELSE IF k = "swebench" THEN 3
    ELSE 4

\* The content of a stored entry at the clock reading 2 of a run: written two
\* half hours ago (stale), one half hour ago (fresh), or damaged
StoredContent(st) ==
    IF st = "stale" THEN Serialize(CacheEntry(0, 1, MaxData))
    ELSE IF st = "fresh" THEN Serialize(CacheEntry(1, 1, MaxData))
    ELSE IF st = "corrupt" THEN <<Hole>>
    ELSE <<>>

\* The source lists of the runs: none (the mock stands in), one source, or two
SourceRegistrations ==
    {<<>>, <<"arena", "swebench">>} \cup {<<k>> : k \in SourceKeys}

InitSource ==
    /\ ResolverUnused /\ MainUnused
    /\ registered \in SourceRegistrations
    /\ srcs = <<>> /\ fpc = "start" /\ returned = <<>> /\ results = <<>>
    /\ now = 2 /\ Idle
    /\ setters = {"p1"}
    /\ ttl_cfg = [p \in Procs |-> 1]
    /\ \E stored \in [SourceKeys -> EntryStates] :
          /\ \A k \in SourceKeys :
                (\A i \in 1..Len(registered) : registered[i] # k) => stored[k] = "absent"
          /\ dirents = [n \in FileNames |->
                          IF n[2] = "json" /\ n[1] \in SourceKeys /\ stored[n[1]] # "absent"
                          THEN KeyInode(n[1]) ELSE 0]
          /\ inodes = [i \in InodeIds |->
                          IF \E k \in SourceKeys : KeyInode(k) = i
                          THEN StoredContent(stored[CHOOSE k \in SourceKeys : KeyInode(k) = i])
                          ELSE <<>>]

\* main.rs:94-102 s.fetch returns `got`; fetch_all converts it and collects it
SourceReturns(got) ==
    /\ returned' = Append(returned, got)
    /\ results' = Collected(results, Current, got)
    /\ fpc' = "fetching"
    /\ UNCHANGED <<registered, srcs>>

\* The fetch goes on at the position `next`
SourceGoesOn(next) ==
    /\ fpc' = next
    /\ UNCHANGED <<registered, srcs, returned, results>>

\* The cache is not touched by the step, but for the slot of the next result
CacheCallNext ==
    /\ ret' = [ret EXCEPT !["p1"] = <<"none">>]
    /\ UNCHANGED <<now, dirents, inodes, setters, ttl_cfg, pc, key, fd, buf, off>>

\* mock.rs:16-54 the mock source answers without the cache
MockFetch ==
    /\ fpc = "fetching"
    /\ Len(returned) < Len(srcs)
    /\ Current = "mock"
    /\ SourceReturns(<<"Ok", MockResult(now)>>)
    /\ UNCHANGED <<rvars, cvars, mvars>>

\* main.rs:94 s.fetch(config, cache) is called: the source is about to call
\* cache.get (aa.rs:20, arena.rs:19, swebench.rs:19, livebench.rs:19)
SourceFetchCalled ==
    /\ fpc = "fetching"
    /\ Len(returned) < Len(srcs)
    /\ Current \in SourceKeys
    /\ SourceGoesOn("get")
    /\ CacheCallNext
    /\ UNCHANGED <<rvars, mvars>>

SourceGetOpen ==
    /\ fpc = "get" /\ ret["p1"][1] = "none"
    /\ GetOpen("p1", Current)

SourceGetRead == fpc = "get" /\ GetRead("p1")

SourceGetReturn == fpc = "get" /\ GetReturn("p1")

\* A source that stamps what it found in the cache with the time of the call
SourceCached_Now ==
    /\ fpc = "get" /\ pc["p1"] = "idle"
    /\ ret["p1"][1] = "get" /\ ret["p1"][2][1] = "Some"
    /\ SourceReturns(<<"Ok", SourceResult(Current, SomeTime(now), StatusCached,
                                         parse_cached(ret["p1"][2][3]))>>)
    /\ UNCHANGED <<rvars, cvars, mvars>>

\* aa.rs:20-22 arena.rs:19-21 swebench.rs:19-26 livebench.rs:19-21 get returned
\* an entry: the source returns it as Cached with the stored fetched_at
SourceCached ==
    /\ fpc = "get" /\ pc["p1"] = "idle"
    /\ ret["p1"][1] = "get" /\ ret["p1"][2][1] = "Some"
    /\ SourceReturns(<<"Ok", SourceResult(Current, SomeTime(ret["p1"][2][2]), StatusCached,
                                         parse_cached(ret["p1"][2][3]))>>)
    /\ UNCHANGED <<rvars, cvars, mvars>>

\* The first thing a source does after a miss: swebench.rs:29 an HTTP request;
\* aa.rs:25-30 an HTTP request when an API key is configured, else the scrape;
\* arena.rs:24 the scrape; livebench.rs:31 the request to the primary endpoint
AfterMiss(name) ==
    IF name = "swebench" THEN {"http"}
    ELSE IF name = "artificial-analysis" THEN {"http", "open"}
    ELSE IF name = "arena" THEN {"open"}
    ELSE {"primary"}

\* get returned None: the source goes on to fetch
SourceMiss ==
    /\ fpc = "get" /\ pc["p1"] = "idle"
    /\ ret["p1"][1] = "get" /\ ret["p1"][2][1] = "None"
    /\ \E next \in AfterMiss(Current) : SourceGoesOn(next)
    /\ UNCHANGED <<rvars, cvars, mvars>>

\* aa.rs:35-52 swebench.rs:30-46 arena.rs:79-100 the request fails: send returns
\* an error (`?`), the status is not a success, or the body is no JSON (`?`);
\* arena.rs:102-109 the JSON mirror has no score
SourceHttpFails ==
    /\ fpc \in {"http", "json"}
    /\ \E got \in {<<"Err", "timeout">>,
                   <<"Ok", SourceResult(Current, NoTime, StatusError("HTTP 500"), <<>>)>>,
                   <<"Err", "no JSON">>,
                   <<"Ok", SourceResult(Current, SomeTime(now), StatusError("no scores"), <<>>)>>} :
          /\ got[1] = "Ok" /\ got[2].fetched_at # NoTime => fpc = "json"
          /\ SourceReturns(got)
    /\ UNCHANGED <<rvars, cvars, mvars>>

\* aa.rs:54-87 swebench.rs:48-51 arena.rs:100-123 the request returned data: the
\* source is about to call cache.set
SourceHttpData ==
    /\ fpc \in {"http", "json"}
    /\ SourceGoesOn("set")
    /\ CacheCallNext
    /\ UNCHANGED <<rvars, mvars>>

\* arena.rs:23-30 Arena::fetch returns what the scrape returned only when it is
\* Ok with scores, and calls fetch_json otherwise; the other sources return it
ScrapeReturns(got) ==
    IF Current = "arena" /\ ~(got[1] = "Ok" /\ got[2].scores # <<>>)
    THEN SourceGoesOn("json")
    ELSE SourceReturns(got)

\* aa.rs:95-100 arena.rs:38-42 `agent-browser open`: the program is not found
\* (map_command_error: Unavailable), it fails (Error), or it succeeds
SourceOpen ==
    /\ fpc = "open"
    /\ \/ ScrapeReturns(<<"Ok", SourceResult(Current, NoTime, StatusUnavailable, <<>>)>>)
       \/ ScrapeReturns(<<"Ok", SourceResult(Current, NoTime, StatusError("open failed"), <<>>)>>)
       \/ SourceGoesOn("snapshot")
    /\ UNCHANGED <<rvars, cvars, mvars>>

\* aa.rs:104-121 arena.rs:46-62 `agent-browser snapshot` after the open: the
\* program is not found any more (Unavailable), it fails (Error), or no score
\* is parsed from the page (Error, with the time of the attempt)
SourceSnapshotFails ==
    /\ fpc = "snapshot"
    /\ \/ ScrapeReturns(<<"Ok", SourceResult(Current, NoTime, StatusUnavailable, <<>>)>>)
       \/ ScrapeReturns(<<"Ok", SourceResult(Current, NoTime, StatusError("snapshot failed"), <<>>)>>)
       \/ ScrapeReturns(<<"Ok", SourceResult(Current, SomeTime(now), StatusError("no scores"), <<>>)>>)
    /\ UNCHANGED <<rvars, cvars, mvars>>

\* aa.rs:123-136 arena.rs:64-75 rows were parsed from the page: the source is
\* about to call cache.set
SourceSnapshotData ==
    /\ fpc = "snapshot"
    /\ SourceGoesOn("set_scrape")
    /\ CacheCallNext
    /\ UNCHANGED <<rvars, mvars>>

\* livebench.rs:31-45 the primary endpoint: a success with a JSON body goes on
\* to cache.set; anything else falls through to the second endpoint
LiveBenchPrimary ==
    /\ fpc = "primary"
    /\ \/ SourceGoesOn("set") /\ CacheCallNext
       \/ SourceGoesOn("hf") /\ UNCHANGED cvars
    /\ UNCHANGED <<rvars, mvars>>

\* livebench.rs:50-87 the second endpoint: a success with a JSON body is an
\* Error (the data is parquet); anything else returns Unavailable
LiveBenchFallback ==
    /\ fpc = "hf"
    /\ \/ SourceReturns(<<"Ok", SourceResult(Current, NoTime, StatusError("parquet"), <<>>)>>)
       \/ SourceReturns(<<"Ok", SourceResult(Current, NoTime, StatusUnavailable, <<>>)>>)
    /\ UNCHANGED <<rvars, cvars, mvars>>

\* aa.rs:87,136 arena.rs:75,123 swebench.rs:51 livebench.rs:36 cache.set(key, data)
SourceSetCreate ==
    /\ fpc \in {"set", "set_scrape"} /\ ret["p1"][1] = "none"
    /\ \E d \in Data : SetCreate("p1", Current, d)

SourceSetFailsEarly ==
    /\ fpc \in {"set", "set_scrape"} /\ ret["p1"][1] = "none"
    /\ SetFailsEarly("p1", Current)

SourceSetWrite == fpc \in {"set", "set_scrape"} /\ SetWrite("p1")

SourceSetSync == fpc \in {"set", "set_scrape"} /\ SetSync("p1")

SourceSetRename == fpc \in {"set", "set_scrape"} /\ SetRename("p1")

SourceSetFails == fpc \in {"set", "set_scrape"} /\ SetFails("p1")

\* The payload of the entry a key's file holds
StoredData(k) == Deserialize(Visible(k))[2].data

\* aa.rs:87-89,136-138 arena.rs:75-77,123-125 swebench.rs:51-58 livebench.rs:36-37
\* cache.set has returned: `?` returns its error; else the source returns Ok
\* with the scores of the data and the time of the return
SourceSetReturned ==
    /\ fpc \in {"set", "set_scrape"} /\ pc["p1"] = "idle"
    /\ ret["p1"][1] = "set"
    /\ LET got == IF ret["p1"][2] = "Err" THEN <<"Err", "cache">>
                  ELSE <<"Ok", SourceResult(Current, SomeTime(now), StatusOk,
                                            parse_cached(StoredData(Current)))>>
       IN  IF fpc = "set_scrape" THEN ScrapeReturns(got) ELSE SourceReturns(got)
    /\ UNCHANGED <<rvars, cvars, mvars>>

NextSource ==
    \/ FetchAllStart
    \/ MockFetch
    \/ SourceFetchCalled
    \/ SourceGetOpen
    \/ SourceGetRead
    \/ SourceGetReturn
    \/ SourceCached
    \/ SourceMiss
    \/ SourceHttpFails
    \/ SourceHttpData
    \/ SourceOpen
    \/ SourceSnapshotFails
    \/ SourceSnapshotData
    \/ LiveBenchPrimary
    \/ LiveBenchFallback
    \/ SourceSetCreate
    \/ SourceSetFailsEarly
    \/ SourceSetWrite
    \/ SourceSetSync
    \/ SourceSetRename
    \/ SourceSetFails
    \/ SourceSetReturned
    \/ FetchAllReturn

SpecSource == InitSource /\ [][NextSource]_vars

----------------------------------------------------------------------------
(* Sources: properties *)

\* The step ends the fetch of a source: its result joins the results
FetchEnds == Len(results') = Len(results) + 1

\* The positions of a fetch at which a request or a subprocess call has been
\* made, or data has been received
Attempted == {"http", "json", "snapshot", "primary", "hf", "set", "set_scrape"}

\* C21: a fetch ends with status Unavailable only where the tool was found
\* absent and nothing had been attempted; a fetch that ends without scores
\* after an attempt ends with status Error; in both cases the scores are empty.
C21_UnavailableOnlyUnattempted ==
    [][FetchEnds =>
          LET r == results'[Len(results')]
          IN  /\ r.status[1] = "Unavailable" => fpc = "open" /\ r.scores = <<>>
              /\ fpc \in Attempted \cup {"open"} /\ r.status[1] \notin {"Ok", "Unavailable"} =>
                     r.status[1] = "Error" /\ r.scores = <<>>
              /\ fpc \in Attempted /\ r.status[1] # "Ok" => r.status[1] = "Error"]_vars

\* The entry of key k was written in this run: it carries the run's clock reading
WrittenInRun(k) ==
    /\ dirents[Path(k)] # 0
    /\ Deserialize(Visible(k))[1] = "Ok"
    /\ Deserialize(Visible(k))[2].fetched_at = now

\* C29: the cache entry of a source is created or overwritten only by a fetch
\* of that source that ends with status Ok: after a fetch that ended in Error,
\* Unavailable or Cached the entry is the one the run found.
C29_WrittenOnlyByOkFetch ==
    \A i \in 1..Len(results) :
        results[i].source \in SourceKeys /\ WrittenInRun(results[i].source) =>
            results[i].status = StatusOk

----------------------------------------------------------------------------
(* The process: inputs of main *)

\* Largest value of --top
MaxTop == 3

\* config.rs:48-58 what Config::load finds at the configuration path: no file,
\* text that does not parse, or a configuration with or without alias.path
ConfigFiles == {<<"absent">>, <<"malformed">>, <<"toml", <<"None">>>>, <<"toml", <<"Some">>>>}

\* alias.rs:50 the strings toml::from_str is given: text that does not parse, or
\* the text of a dataset
TomlTexts == {<<"malformed">>} \cup {<<"toml", d>> : d \in Datasets}

\* What path.exists() and read_to_string find at a location
FileStates == {<<"absent">>} \cup TomlTexts

\* The number of entries of a dataset text
Entries(f) == IF f[1] = "toml" THEN Cardinality(f[2]) ELSE 0

\* --format values
Formats == {"json", "table", "markdown", "md", "xml"}

\* output.rs:14-21 OutputFormat::from_str
from_str(f) ==
    IF f = "json" THEN <<"Ok", "Json">>
    ELSE IF f = "table" THEN <<"Ok", "Table">>
    ELSE IF f \in {"markdown", "md"} THEN <<"Ok", "Markdown">>
    ELSE <<"Err">>

\* Model names given on the command line
ModelArgs == {<<"A">>, <<"a", "-">>, <<"a", " ", "a">>}

\* main.rs:38-61 Command
Commands ==
    {<<"rank", <<"None">>>>} \cup {<<"rank", <<"Some", n>>>> : n \in 0..MaxTop}
    \cup {<<"check", m>> : m \in ModelArgs}
    \cup {<<"compare", m1, m2>> : m1 \in ModelArgs, m2 \in ModelArgs}
    \cup {<<"sources">>, <<"refresh">>}

\* sources/mod.rs:13-32 the source lists the program is built with: none (the
\* mock source stands in) or the sources of the commented-out registration
MainRegistrations == {<<>>, <<"arena", "swebench">>}

----------------------------------------------------------------------------
(* The process: AliasMap::load *)

\* load with the default location consulted whenever the configured path names
\* no file
SelectedOverride_FallsBack(given, path_file, default_file) ==
    IF given = <<"Some">> /\ path_file[1] # "absent" THEN path_file ELSE default_file

\* alias.rs:27-44 the file load reads on top of the bundled dataset: the file at
\* the configured path when a path is configured (nothing when it does not
\* exist), the file at the default location when no path is configured
SelectedOverride(given, path_file, default_file) ==
    IF given = <<"Some">> THEN path_file ELSE default_file

\* parse_into with text that does not parse taken for an empty dataset
ParseResults_Lenient(text, map) ==
    IF text[1] = "toml" THEN {<<"Ok", parse_into(o, map)>> : o \in Orders(text[2])}
    ELSE {<<"Ok", map>>}

\* alias.rs:49-61 parse_into(toml_str, map): Err when toml::from_str fails, else
\* the map after the loop, for every order the loop can visit the entries in
ParseResults(text, map) ==
    IF text[1] = "toml" THEN {<<"Ok", parse_into(o, map)>> : o \in Orders(text[2])}
    ELSE {<<"Err">>}

\* alias.rs:27-44 the override step of load on the map built so far
OverrideResults(text, map) ==
    IF text[1] = "absent" THEN {<<"Ok", map>>} ELSE ParseResults(text, map)

----------------------------------------------------------------------------
(* The process: the commands *)

\* truncate that keeps one element more than asked
truncate_OneMore(scores, n) ==
    IF n + 1 < Len(scores) THEN SubSeq(scores, 1, n + 1) ELSE scores

\* main.rs:125 Vec::truncate(n)
truncate(scores, n) ==
    IF n < Len(scores) THEN SubSeq(scores, 1, n) ELSE scores

\* main.rs:122-127 cmd_rank on the fetched results
cmd_rank(top, res) ==
    IF top[1] = "Some"
    THEN [i \in DOMAIN res |-> [res[i] EXCEPT !.scores = truncate(@, top[2])]]
    ELSE res

\* The test of cmd_check on the model field alone
KeepForCheck_ModelOnly(map, order, canonical, s) ==
    to_lowercase(s.model) = canonical

\* main.rs:158-161 the closure of retain in cmd_check
KeepForCheck(map, order, canonical, s) ==
    \/ to_lowercase(s.model) = canonical
    \/ matches(map, order, s.source_model_name, canonical)

\* main.rs:154-164 cmd_check on the fetched results
cmd_check(map, order, canonical, res) ==
    [i \in DOMAIN res |->
        [res[i] EXCEPT !.scores =
            SelectSeq(@, LAMBDA s : KeepForCheck(map, order, canonical, s))]]

\* The test of cmd_compare on the first model alone
KeepForCompare_FirstOnly(map, order, c1, c2, s) ==
    resolve(map, order, s.source_model_name) = c1

\* main.rs:195-198 the closure of retain in cmd_compare
KeepForCompare(map, order, c1, c2, s) ==
    LET resolved_name == resolve(map, order, s.source_model_name)
    IN  resolved_name = c1 \/ resolved_name = c2

\* cmd_compare that leaves out the sources it has no score for
cmd_compare_DropsEmpty(map, order, c1, c2, res) ==
    SelectSeq([i \in DOMAIN res |->
                  [res[i] EXCEPT !.scores =
                      SelectSeq(@, LAMBDA s : KeepForCompare(map, order, c1, c2, s))]],
              LAMBDA r : r.scores # <<>>)

\* main.rs:192-202 cmd_compare on the fetched results
cmd_compare(map, order, c1, c2, res) ==
    [i \in DOMAIN res |->
        [res[i] EXCEPT !.scores =
            SelectSeq(@, LAMBDA s : KeepForCompare(map, order, c1, c2, s))]]

\* models.rs PondusOutput: the query type and the sources
PondusOutput(query_type, sources) == [query_type |-> query_type, sources |-> sources]

\* main.rs:76-88,115-234 the output of the command `cmd` over the fetched results
Rendered(cmd, cs, map, order, res) ==
    IF cmd[1] = "rank" THEN PondusOutput("rank", cmd_rank(cmd[2], res))
    ELSE IF cmd[1] = "refresh" THEN PondusOutput("rank", cmd_rank(<<"None">>, res))
    ELSE IF cmd[1] = "check" THEN PondusOutput("check", cmd_check(map, order, cs[1], res))
    ELSE IF cmd[1] = "compare"
         THEN PondusOutput("compare", cmd_compare(map, order, cs[1], cs[2], res))
    ELSE PondusOutput("sources", res)

----------------------------------------------------------------------------
(* The process: state machine *)

\* The cache directory holds an entry of each key when the process starts
StoredEntries ==
    /\ dirents = [n \in FileNames |->
                    IF n = Path("swebench") THEN 1 ELSE IF n = Path("arena") THEN 2 ELSE 0]
    /\ inodes = [i \in InodeIds |->
                    IF i \in {1, 2} THEN Serialize(CacheEntry(0, 1, 1)) ELSE <<>>]

InitMain ==
    /\ ResolverUnused /\ MainUnused
    /\ registered \in MainRegistrations
    /\ srcs = <<>> /\ fpc = "start" /\ returned = <<>> /\ results = <<>>
    /\ now = 0 /\ StoredEntries /\ Idle
    /\ setters = {}
    /\ ttl_cfg = [p \in Procs |-> 1]

\* The process ends with an error at `stage`
Fails(stage) ==
    /\ exited' = <<"Err", stage>>
    /\ mpc' = "exit"

\* main.rs:65-66 Config::load()?: a missing file gives the default configuration
MainConfig ==
    /\ mpc = "config"
    /\ \E c \in ConfigFiles :
          IF c[1] = "malformed"
          THEN Fails("config") /\ UNCHANGED alias_path
          ELSE /\ alias_path' = IF c[1] = "absent" THEN <<"None">> ELSE c[2]
               /\ mpc' = "aliases"
               /\ UNCHANGED exited
    /\ UNCHANGED <<cli_refresh, files, command, canon, output, rvars, fvars, cvars>>

\* alias.rs:22-25 load parses the bundled dataset into a new map
AliasLoadBundled ==
    /\ mpc = "aliases"
    /\ \E b \in TomlTexts :
          /\ Entries(b) <= MaxEntries
          /\ files' = [files EXCEPT !.bundled = b]
          /\ \E r \in ParseResults(b, NoMap) :
                IF r[1] = "Err"
                THEN Fails("aliases") /\ UNCHANGED to_canonical
                ELSE /\ to_canonical' = r[2]
                     /\ mpc' = "override"
                     /\ UNCHANGED exited
    /\ UNCHANGED <<cli_refresh, alias_path, command, canon, output, fvars, cvars>>
    /\ UNCHANGED <<bundled, override, rpc, query, resolved, resolved2>>

\* alias.rs:27-44 load looks for the override file, reads it and parses it on
\* top of the map; an error drops the map
AliasLoadOverride ==
    /\ mpc = "override"
    /\ \E pf \in FileStates, df \in FileStates :
          /\ Entries(files.bundled) + Entries(pf) + Entries(df) <= MaxEntries
          /\ alias_path = <<"None">> => pf = <<"absent">>
          /\ files' = [files EXCEPT !.path = pf, !.default = df]
          /\ \E r \in OverrideResults(SelectedOverride(alias_path, pf, df), to_canonical) :
                IF r[1] = "Err"
                THEN Fails("aliases") /\ to_canonical' = NoMap
                ELSE /\ to_canonical' = r[2]
                     /\ mpc' = "loaded"
                     /\ UNCHANGED exited
    /\ UNCHANGED <<cli_refresh, alias_path, command, canon, output, fvars, cvars>>
    /\ UNCHANGED <<bundled, override, rpc, query, resolved, resolved2>>

\* alias.rs:46 load returns the AliasMap; the strings it read are dropped
AliasLoadReturn ==
    /\ mpc = "loaded"
    /\ files' = NotRead
    /\ mpc' = "format"
    /\ UNCHANGED <<cli_refresh, alias_path, command, canon, output, exited, rvars, fvars, cvars>>

\* main.rs:68 OutputFormat::from_str(&cli.format)?
MainFormat ==
    /\ mpc = "format"
    /\ \E f \in Formats :
          IF from_str(f)[1] = "Err"
          THEN Fails("format")
          ELSE mpc' = "flag" /\ UNCHANGED exited
    /\ UNCHANGED <<cli_refresh, alias_path, files, command, canon, output, rvars, fvars, cvars>>

\* main that reads the flag and goes on to the command without the clear
MainRefreshFlag_NoClear ==
    /\ mpc = "flag"
    /\ \E flag \in BOOLEAN :
          /\ cli_refresh' = flag
          /\ mpc' = "command"
    /\ UNCHANGED <<alias_path, files, command, canon, output, exited, rvars, fvars, cvars>>

\* main.rs:70,74 `if cli.refresh`: without the flag main goes on to the command
MainRefreshFlag ==
    /\ mpc = "flag"
    /\ \E flag \in BOOLEAN :
          /\ cli_refresh' = flag
          /\ mpc' = IF flag THEN "clear_flag" ELSE "command"
    /\ UNCHANGED <<alias_path, files, command, canon, output, exited, rvars, fvars, cvars>>

\* main.rs:71,84 cache.clear() is called
MainClearCall ==
    /\ mpc \in {"clear_flag", "clear_cmd"}
    /\ ClearCalled("p1")
    /\ mpc' = IF mpc = "clear_flag" THEN "clearing_flag" ELSE "clearing_cmd"
    /\ UNCHANGED <<cli_refresh, alias_path, files, command, canon, output, exited>>

MainClearRemove == mpc \in {"clearing_flag", "clearing_cmd"} /\ ClearRemove("p1")

MainClearFails == mpc \in {"clearing_flag", "clearing_cmd"} /\ ClearFails("p1")

MainClearReturn == mpc \in {"clearing_flag", "clearing_cmd"} /\ ClearReturn("p1")

\* Where main goes on with an error of clear dropped
AfterClear_Ignored(result, next) == next

\* main.rs:71,84 the `?` on cache.clear()
AfterClear(result, next) == IF result = "Err" THEN "exit" ELSE next

\* main.rs:71,84 cache.clear() has returned
MainCleared ==
    /\ mpc \in {"clearing_flag", "clearing_cmd"}
    /\ pc["p1"] = "idle"
    /\ mpc' = AfterClear(ret["p1"][2], IF mpc = "clearing_flag" THEN "command" ELSE "fetch")
    /\ exited' = IF mpc' = "exit" THEN <<"Err", "clear">> ELSE exited
    /\ UNCHANGED <<cli_refresh, alias_path, files, command, canon, output, rvars, fvars, cvars>>

\* main.rs:74-88 the command is matched; main.rs:151,188-189 check and compare
\* resolve their arguments before anything is fetched
MainDispatch ==
    /\ mpc = "command"
    /\ \E cmd \in Commands, order \in Orders(DOMAIN to_canonical) :
          /\ command' = cmd
          /\ canon' = IF cmd[1] = "check"
                      THEN <<resolve(to_canonical, order, cmd[2])>>
                      ELSE IF cmd[1] = "compare"
                      THEN <<resolve(to_canonical, order, cmd[2]),
                             resolve(to_canonical, order, cmd[3])>>
                      ELSE <<>>
          /\ mpc' = IF cmd[1] = "refresh" THEN "clear_cmd" ELSE "fetch"
    /\ UNCHANGED <<cli_refresh, alias_path, files, output, exited, rvars, fvars, cvars>>

MainFetchStart == mpc = "fetch" /\ FetchAllStart

MainFetchOne == mpc = "fetch" /\ FetchOne

MainFetchReturn == mpc = "fetch" /\ FetchAllReturn

\* main.rs:122-141,154-177,192-215,221-233 the command filters what fetch_all
\* returned, prints the output and main returns Ok
MainRender ==
    /\ mpc = "fetch"
    /\ fpc = "done"
    /\ \E order \in Orders(DOMAIN to_canonical) :
          output' = Rendered(command, canon, to_canonical, order, results)
    /\ exited' = <<"Ok">>
    /\ mpc' = "exit"
    /\ UNCHANGED <<cli_refresh, alias_path, files, command, canon, rvars, fvars, cvars>>

\* main.rs:94 inside fetch_all of the command: a step of Source::fetch of the
\* next source, through the cache
MainSourceFetch ==
    /\ mpc = "fetch"
    /\ \/ MockFetch
       \/ SourceFetchCalled
       \/ SourceGetOpen \/ SourceGetRead \/ SourceGetReturn
       \/ SourceCached
       \/ SourceMiss
       \/ SourceHttpFails \/ SourceHttpData
       \/ SourceOpen \/ SourceSnapshotFails \/ SourceSnapshotData
       \/ SourceSetCreate \/ SourceSetFailsEarly \/ SourceSetWrite
       \/ SourceSetSync \/ SourceSetRename \/ SourceSetFails
       \/ SourceSetReturned

NextMain ==
    \/ MainConfig
    \/ AliasLoadBundled
    \/ AliasLoadOverride
    \/ AliasLoadReturn
    \/ MainFormat
    \/ MainRefreshFlag
    \/ MainClearCall
    \/ MainClearRemove
    \/ MainClearFails
    \/ MainClearReturn
    \/ MainCleared
    \/ MainDispatch
    \/ MainFetchStart
    \/ MainFetchOne
    \/ MainFetchReturn
    \/ MainRender

SpecMain == InitMain /\ [][NextMain]_vars

\* A run of the program over a cache directory that holds a fresh entry of
\* each registered source, written half an hour before
InitRun ==
    /\ ResolverUnused /\ MainUnused
    /\ registered \in MainRegistrations
    /\ srcs = <<>> /\ fpc = "start" /\ returned = <<>> /\ results = <<>>
    /\ now = 2 /\ Idle
    /\ setters = {"p1"}
    /\ ttl_cfg = [p \in Procs |-> 1]
    /\ dirents = [n \in FileNames |->
                    IF n \in {Path("arena"), Path("swebench")} THEN KeyInode(n[1]) ELSE 0]
    /\ inodes = [i \in InodeIds |->
                    IF i \in {KeyInode("arena"), KeyInode("swebench")}
                    THEN StoredContent("fresh") ELSE <<>>]

\* The program with the sources fetching through the cache
NextRun ==
    \/ MainConfig
    \/ AliasLoadBundled
    \/ AliasLoadOverride
    \/ AliasLoadReturn
    \/ MainFormat
    \/ MainRefreshFlag
    \/ MainClearCall
    \/ MainClearRemove
    \/ MainClearFails
    \/ MainClearReturn
    \/ MainCleared
    \/ MainDispatch
    \/ MainFetchStart
    \/ MainSourceFetch
    \/ MainFetchReturn
    \/ MainRender

SpecRun == InitRun /\ [][NextRun]_vars

----------------------------------------------------------------------------
(* The process: properties of load *)

\* The lowercase keys a dataset registers
KeysOf(d) ==
    {to_lowercase(e.canonical) : e \in d}
    \cup UNION {{to_lowercase(e.aliases[i]) : i \in 1..Len(e.aliases)} : e \in d}

\* The dataset of a text (none for a file that is absent)
DatasetOf(text) == IF text[1] = "toml" THEN text[2] ELSE {}

\* The file load read on top of the bundled dataset
OverrideRead == IF alias_path = <<"Some">> THEN files.path ELSE files.default

\* C16: the map load built has the keys of the bundled and of the override
\* dataset; a key the override registers maps to a canonical the override
\* registers it under, every other key to a canonical the bundled dataset
\* registers it under, whatever else the override says about that canonical.
C16_OverrideOverwritesPerKey ==
    mpc = "loaded" =>
        LET b  == DatasetOf(files.bundled)
            ov == DatasetOf(OverrideRead)
        IN  /\ DOMAIN to_canonical = KeysOf(b) \cup KeysOf(ov)
            /\ \A k \in DOMAIN to_canonical :
                  to_canonical[k] \in (IF k \in KeysOf(ov) THEN CanonicalsOf(ov, k)
                                       ELSE CanonicalsOf(b, k))

\* The override moves the key "a" from the bundled canonical "a" to its own
\* canonical "a-"; the bundled alias "a-a" of "a" stays as it was
C16_Witness ==
    /\ mpc = "loaded"
    /\ files.bundled = <<"toml", {[canonical |-> <<"A">>, aliases |-> << <<"a", "-", "a">> >>]}>>
    /\ OverrideRead = <<"toml", {[canonical |-> <<"a", "-">>, aliases |-> << <<"a">> >>]}>>
    /\ to_canonical[<<"a">>] = <<"a", "-">>
    /\ to_canonical[<<"a", "-", "a">>] = <<"a">>

\* No fetch has been started
NothingFetched == fpc = "start" /\ srcs = <<>> /\ returned = <<>> /\ results = <<>>

\* C17: when the bundled dataset or the override dataset load reads is
\* malformed, load has failed; and when load or the configuration has failed
\* there is no map, no fetch was started and nothing was printed.
C17_MalformedAbortsBeforeFetch ==
    /\ files.bundled[1] = "malformed" \/ OverrideRead[1] = "malformed"
          => exited = <<"Err", "aliases">>
    /\ exited \in {<<"Err", "config">>, <<"Err", "aliases">>}
          => /\ mpc = "exit"
             /\ to_canonical = NoMap
             /\ NothingFetched
             /\ output = <<"none">>

\* The bundled dataset was parsed, the file at the configured path is malformed
C17_Witness ==
    /\ files.bundled[1] = "toml" /\ files.bundled[2] # {}
    /\ alias_path = <<"Some">>
    /\ files.path = <<"malformed">>
    /\ exited = <<"Err", "aliases">>

\* load has looked for the override file
OverrideLookedFor == files.default[1] # "unread"

\* What load returned
LoadOutcome == IF mpc = "loaded" THEN <<"Ok", to_canonical>> ELSE <<"Err">>

\* What a load that merges `text` on top of the bundled dataset can return
MergeOutcomes(text) ==
    UNION {OverrideResults(text, rb[2]) : rb \in ParseResults(files.bundled, NoMap)}

\* C18: load merges the file at the given path if a path is given and the file
\* exists, otherwise the file at the default location if it exists (also when a
\* path is given that does not exist), otherwise nothing.
C18_MissingPathFallsBackToDefault ==
    OverrideLookedFor =>
        LoadOutcome \in
            MergeOutcomes(IF alias_path = <<"Some">> /\ files.path[1] # "absent"
                          THEN files.path ELSE files.default)

\* C18 as amended: with a path configured load merges the file at that path if
\* it exists and nothing if it does not, the default location is not looked
\* at; with no path configured it merges the file at the default location if it
\* exists; otherwise only the bundled dataset is used.
C18_ConfiguredPathElseDefault ==
    OverrideLookedFor =>
        LoadOutcome \in
            MergeOutcomes(IF alias_path = <<"Some">> THEN files.path ELSE files.default)

\* A path is configured and names no file, the default location holds a
\* dataset, and the map has the bundled keys only
C18_Witness ==
    /\ mpc = "loaded"
    /\ alias_path = <<"Some">>
    /\ files.path = <<"absent">>
    /\ files.default[1] = "toml" /\ files.default[2] # {}
    /\ files.bundled[2] # {}
    /\ DOMAIN to_canonical = KeysOf(files.bundled[2])
    /\ KeysOf(files.default[2]) \ DOMAIN to_canonical # {}

----------------------------------------------------------------------------
(* The process: properties of the commands *)

\* The elements of a sequence
Range(seq) == {seq[i] : i \in 1..Len(seq)}

\* out holds exactly the elements of inp that are in keep, as often as inp does
RetainsExactly(out, inp, keep) ==
    /\ Range(out) = Range(inp) \cap keep
    /\ Len(out) = Cardinality({j \in 1..Len(inp) : inp[j] \in keep})

\* The output has the fetched results, source by source, but for the scores
SameSources ==
    /\ Len(output.sources) = Len(results)
    /\ \A i \in 1..Len(results) :
          output.sources[i] = [results[i] EXCEPT !.scores = output.sources[i].scores]

\* C13: check(model) with c = resolve(model) retains in every source exactly
\* the scores whose lowercased model is c or whose source_model_name resolves
\* to c, and drops the others.
C13_CheckRetainsMatches ==
    exited = <<"Ok">> /\ command[1] = "check" =>
        /\ SameSources
        /\ \A order \in Orders(DOMAIN to_canonical) :
              LET c == resolve(to_canonical, order, command[2])
              IN  \A i \in 1..Len(results) :
                     RetainsExactly(output.sources[i].scores, results[i].scores,
                         {s \in Range(results[i].scores) :
                             \/ to_lowercase(s.model) = c
                             \/ resolve(to_canonical, order, s.source_model_name)
                                   = to_lowercase(c)})

\* A check that retained one of the two scores of a source, by the resolved
\* source_model_name and not by the model field
C13_Witness ==
    /\ exited = <<"Ok">> /\ command[1] = "check"
    /\ \E i \in 1..Len(results) :
          /\ Len(results[i].scores) = 2
          /\ Len(output.sources[i].scores) = 1
          /\ to_lowercase(output.sources[i].scores[1].model) # canon[1]

\* C14: compare(m1, m2) with c1 = resolve(m1) and c2 = resolve(m2) returns no
\* score whose source_model_name resolves to neither, and retains every score
\* whose source_model_name resolves to c1 or c2.
C14_CompareRetainsBoth ==
    exited = <<"Ok">> /\ command[1] = "compare" =>
        /\ SameSources
        /\ \A order \in Orders(DOMAIN to_canonical) :
              LET c1 == resolve(to_canonical, order, command[2])
                  c2 == resolve(to_canonical, order, command[3])
              IN  \A i \in 1..Len(results) :
                     RetainsExactly(output.sources[i].scores, results[i].scores,
                         {s \in Range(results[i].scores) :
                             resolve(to_canonical, order, s.source_model_name)
                                 \in {c1, c2}})

\* A compare of two models with different canonicals that retained a score of
\* each and dropped nothing it should keep, in a run where another source held
\* a score of neither
C14_Witness ==
    /\ exited = <<"Ok">> /\ command[1] = "compare"
    /\ canon[1] # canon[2]
    /\ \E i \in 1..Len(results) :
          /\ Len(output.sources[i].scores) = 2
          /\ output.sources[i].scores[1] # output.sources[i].scores[2]
    /\ \E i \in 1..Len(results) :
          Len(output.sources[i].scores) < Len(results[i].scores)

\* a is b with some elements left out, the others in their order
RECURSIVE IsSubsequence(_, _)
IsSubsequence(a, b) ==
    IF a = <<>> THEN TRUE
    ELSE IF b = <<>> THEN FALSE
    ELSE IF a[1] = b[1] THEN IsSubsequence(Tail(a), Tail(b))
    ELSE IsSubsequence(a, Tail(b))

\* C27: the output of rank, check and compare has one SourceResult for every
\* fetched source, in the order of fetch_all, with the source, status and
\* fetched_at of the fetched result; a source that keeps no score is still in
\* the output, and the scores that are kept are in their original order.
C27_FiltersChangeOnlyScores ==
    exited = <<"Ok">> /\ command[1] \in {"rank", "check", "compare"} =>
        /\ Len(output.sources) = Len(results)
        /\ \A i \in 1..Len(results) :
              /\ output.sources[i].source = results[i].source
              /\ output.sources[i].status = results[i].status
              /\ output.sources[i].fetched_at = results[i].fetched_at
              /\ IsSubsequence(output.sources[i].scores, results[i].scores)

\* A compare that left no score of a source that had some, which is in the
\* output with its status all the same, and kept two scores of another source
C27_Witness ==
    /\ exited = <<"Ok">> /\ command[1] = "compare"
    /\ \E i, j \in 1..Len(results) :
          /\ results[i].scores # <<>>
          /\ output.sources[i].scores = <<>>
          /\ output.sources[i].status = results[i].status
          /\ output.sources[i].source = results[i].source
          /\ Len(output.sources[j].scores) = 2

\* C30: over the same fetched results and the same map, every score that
\* compare(m1, m2) retains in a source is retained in that source by check(m1)
\* or by check(m2).
C30_CompareWithinChecks ==
    exited = <<"Ok">> /\ command[1] = "compare" =>
        \A order \in Orders(DOMAIN to_canonical), i \in 1..Len(results) :
            LET check1 == cmd_check(to_canonical, order,
                              resolve(to_canonical, order, command[2]), results)
                check2 == cmd_check(to_canonical, order,
                              resolve(to_canonical, order, command[3]), results)
            IN  Range(output.sources[i].scores) \subseteq
                    Range(check1[i].scores) \cup Range(check2[i].scores)

\* A compare that retained a score whose model field is neither of the two
\* canonicals and whose source_model_name is an alias or a longer name of one of
\* them, and that dropped a score check retains by the model field
C30_Witness ==
    /\ exited = <<"Ok">> /\ command[1] = "compare"
    /\ \E i \in 1..Len(results) :
          \E s \in Range(output.sources[i].scores) :
              /\ to_lowercase(s.model) # canon[1]
              /\ to_lowercase(s.model) # canon[2]
              /\ to_lowercase(s.source_model_name) # canon[1]
              /\ to_lowercase(s.source_model_name) # canon[2]
    /\ \E i \in 1..Len(results) :
          \E s \in Range(results[i].scores) \ Range(output.sources[i].scores) :
              to_lowercase(s.model) = canon[1]

\* C25: a query runs one fetch_all round: the round starts once and ends once,
\* every fetch that returns is the fetch of the next source in registration
\* order and is recorded after the ones before it, the round ends when every
\* source has been fetched once, and what follows the round (the filter and the
\* output) fetches nothing and leaves the cache alone.
C25_OneSequentialRound ==
    [][/\ fpc' # fpc =>
             \/ fpc = "start" /\ fpc' = "fetching" /\ srcs' = get_sources(registered)
             \/ fpc = "fetching" /\ fpc' = "done" /\ Len(returned) = Len(srcs)
       /\ Len(returned') # Len(returned) =>
             /\ fpc = "fetching" /\ fpc' = "fetching"
             /\ Len(returned) < Len(srcs)
             /\ Len(returned') = Len(returned) + 1
             /\ SubSeq(returned', 1, Len(returned)) = returned
             /\ Len(results') = Len(returned')
             /\ SubSeq(results', 1, Len(results)) = results
             /\ results'[Len(results')].source = srcs[Len(returned) + 1]
       /\ fpc = "done" => UNCHANGED <<fvars, cvars>>
       /\ exited' = <<"Ok">> /\ exited # <<"Ok">> =>
             /\ fpc = "done"
             /\ Len(returned) = Len(srcs)
             /\ \A i, j \in 1..Len(srcs) : i # j => srcs[i] # srcs[j]]_vars

\* A check or a compare has printed its output after a round over two sources,
\* the first of which failed
C25_Witness ==
    /\ exited = <<"Ok">> /\ command[1] \in {"check", "compare"}
    /\ fpc = "done"
    /\ Len(srcs) = 2 /\ Len(returned) = 2
    /\ returned[1][1] = "Err"
    /\ results[1].source = srcs[1] /\ results[2].source = srcs[2]
    /\ srcs[1] # srcs[2]

\* The run is a refresh: by the --refresh flag or by the refresh command
RefreshInvocation == cli_refresh \/ command[1] = "refresh"

\* While main clears the cache no fetch has started, and no result of a
\* refresh is Cached
ClearedBeforeFetch ==
    /\ mpc \in {"clear_flag", "clearing_flag", "clear_cmd", "clearing_cmd"} =>
          fpc = "start" /\ results = <<>>
    /\ fpc # "start" => pc["p1"] # "clear"
    /\ RefreshInvocation =>
          \A i \in 1..Len(results) :
              /\ results[i].status # StatusCached
              /\ results[i].fetched_at \in {NoTime, SomeTime(now)}

\* C22: in a run with the --refresh flag or the refresh command the clear is
\* over before the first fetch starts and no result is Cached, and the run
\* prints a rank of everything that was fetched, without a top limit.
C22_RefreshRunsUncachedRank ==
    /\ ClearedBeforeFetch
    /\ RefreshInvocation /\ exited = <<"Ok">> => output = PondusOutput("rank", results)

\* C22 as the program has it: in a run with the --refresh flag or the refresh
\* command the clear is over before the first fetch starts and no result is
\* Cached; the refresh command prints a rank of everything that was fetched,
\* and a run with the flag prints the output of the command it was given.
C22_RefreshRunsUncached ==
    /\ ClearedBeforeFetch
    /\ RefreshInvocation /\ exited = <<"Ok">> =>
          /\ command[1] = "refresh" => output = PondusOutput("rank", results)
          /\ command[1] # "refresh" =>
                \E order \in Orders(DOMAIN to_canonical) :
                    output = Rendered(command, canon, to_canonical, order, results)

\* A check with the --refresh flag over a directory that held fresh entries of
\* both sources: both were fetched, one entry was written again, and the
\* output is that of the check
C22_Witness ==
    /\ exited = <<"Ok">>
    /\ cli_refresh /\ command[1] = "check"
    /\ output.query_type = "check"
    /\ Len(results) = 2
    /\ \E i \in 1..2 : results[i].status = StatusOk /\ WrittenInRun(results[i].source)
    /\ \E i \in 1..2 : results[i].status[1] = "Error" /\ dirents[Path(results[i].source)] = 0

\* The smaller of two numbers
Min(a, b) == IF a < b THEN a ELSE b

\* C15: rank(top = N) returns for every source the first min(N, length) scores
\* in their order (none for N = 0) and does not look at the models; without top
\* it returns every list as fetched.
C15_RankTruncates ==
    exited = <<"Ok">> /\ command[1] = "rank" =>
        /\ SameSources
        /\ \A i \in 1..Len(results) :
              output.sources[i].scores =
                  IF command[2][1] = "Some"
                  THEN SubSeq(results[i].scores, 1,
                              Min(command[2][2], Len(results[i].scores)))
                  ELSE results[i].scores

\* rank --top 1 over a source with two scores and a source with none
C15_Witness ==
    /\ exited = <<"Ok">> /\ command = <<"rank", <<"Some", 1>>>>
    /\ Len(results) = 2
    /\ Len(results[1].scores) = 2 /\ Len(output.sources[1].scores) = 1
    /\ output.sources[1].scores[1] = results[1].scores[1]
    /\ results[2].scores = <<>>

\* A process that ended with Ok printed one SourceResult per registered source,
\* in registration order, a failed fetch as that source's Error status
OutputForEverySource ==
    exited = <<"Ok">> =>
        /\ Len(output.sources) = Len(get_sources(registered))
        /\ \A i \in 1..Len(output.sources) :
              /\ output.sources[i].source = get_sources(registered)[i]
              /\ returned[i][1] = "Err" =>
                    output.sources[i].status = StatusError(returned[i][2])

\* C20: the process ends with an error only at startup (configuration, alias
\* datasets) or for an unknown output format, never for a cache failure, a
\* failure of clear included; a process that ends with Ok has printed a
\* SourceResult for every registered source.
C20_OnlyStartupAndFormatErrorsTerminate ==
    /\ exited[1] = "Err" => exited[2] \in {"config", "aliases", "format"}
    /\ OutputForEverySource

\* C20 as amended: the process ends with an error only at startup, for an
\* unknown output format, or when clear fails on a refresh, each time before any
\* fetch is started; a clear that failed always ends the process; failures of a
\* source end up in that source's status, and a process that ends with Ok has
\* printed a SourceResult for every registered source.
C20_StartupFormatAndClearErrorsTerminate ==
    /\ exited[1] = "Err" =>
          /\ exited[2] \in {"config", "aliases", "format", "clear"}
          /\ NothingFetched /\ output = <<"none">>
    /\ ret["p1"] = <<"clear", "Err">> =>
          \/ mpc \in {"clearing_flag", "clearing_cmd"}
          \/ exited = <<"Err", "clear">>
    /\ OutputForEverySource

\* A refresh cleared the cache, the fetch of the first of two sources failed,
\* and both sources are in the output
C20_Witness ==
    /\ exited = <<"Ok">>
    /\ ret["p1"] = <<"clear", "Ok">>
    /\ Len(output.sources) = 2
    /\ returned[1][1] = "Err" /\ returned[2][1] = "Ok"
    /\ output.sources[1].status[1] = "Error"

============================================================================
